---- MODULE Spec2Model ----
(***************************************************************************)
(* Model of the rate-limit-aware batch fetch pipeline of comfy-screener    *)
(* (src/src/klines.rs) together with the storage it reads and writes       *)
(* (src/src/storage_utils.rs).                                             *)
(*                                                                         *)
(* Time is counted in milliseconds.  `clock` is the monotonic clock        *)
(* (Instant); the wall clock (SystemTime) is EpochMs + clock.              *)
(***************************************************************************)
EXTENDS Integers, Naturals, Sequences, FiniteSets, TLC

(***************************************************************************)
(* Bounds of the model                                                     *)
(***************************************************************************)
\* number of entries of the exchange metadata symbol list
MaxSymbols == 4
\* the monotonic clock never passes this value
MaxClock == 200000
\* wall-clock time at clock = 0
EpochMs == 1000000
\* largest candle limit given to calculate_request_weight
MaxLimit == 1500
\* number of saves of one key, and of process crashes, in the storage model
MaxSaves == 3
MaxCrashes == 2
\* number of write steps a serialized record takes
RecLen == 2
\* longest candle sequence given to analyze_klines_data on its own
MaxCandles == 3
\* largest number of instruments in a raw candle capture analysed on its own
MaxInstruments == 3

(***************************************************************************)
(* Program constants                                                       *)
(***************************************************************************)
\* klines.rs:205  .unwrap_or(2400)
DefaultWeightLimit == 2400
\* klines.rs:263  elapsed.as_secs() < 60
PacingWindowSecs == 60
\* klines.rs:264  Duration::from_secs(62)
PacingTargetSecs == 62
\* klines.rs:102  + 5.0
BanBufferSecs == 5

(***************************************************************************)
(* Inputs                                                                  *)
(***************************************************************************)
\* candle limits of the configuration, one per weight tier used
Limits == {99, 500, 1001}

\* config.trading of the configuration file
QuoteAsset == "USDT"
ContractType == "PERPETUAL"

\* an entry of exchange_info.symbols
SymbolEntry(k) ==
    [symbol |-> k,
     status |-> IF k % 4 = 2 THEN "BREAK" ELSE "TRADING",
     contract_type |-> IF k % 7 = 0 THEN "CURRENT_QUARTER" ELSE "PERPETUAL",
     quote_asset |-> IF k % 5 = 0 THEN "USDC" ELSE "USDT"]

SymbolList(n) == [k \in 1..n |-> SymbolEntry(k)]

RL(t, iv, l) == [limit_type |-> t, interval |-> iv, limit |-> l]

\* exchange_info.rateLimits documents
RateLimitLists ==
    { <<>>,
      << RL("REQUEST_WEIGHT", "MINUTE", 1) >>,
      << RL("ORDERS", "MINUTE", 1200), RL("REQUEST_WEIGHT", "MINUTE", 3),
         RL("REQUEST_WEIGHT", "MINUTE", 2400) >>,
      << RL("REQUEST_WEIGHT", "MINUTE", 5) >>,
      << RL("REQUEST_WEIGHT", "SECOND", 9), RL("REQUEST_WEIGHT", "MINUTE", 12) >> }

(***************************************************************************)
(* Pure helpers of klines.rs                                               *)
(***************************************************************************)
Max(a, b) == IF a >= b THEN a ELSE b
Min(a, b) == IF a <= b THEN a ELSE b

\* variant: the tier bounds are taken exclusive
calculate_request_weight_exclusive(limit) ==
    IF limit < 99 THEN 1
    ELSE IF limit < 499 THEN 2
    ELSE IF limit < 1000 THEN 5
    ELSE 10

\* calculate_request_weight
calculate_request_weight(limit) ==
    IF limit <= 99 THEN 1
    ELSE IF limit <= 499 THEN 2
    ELSE IF limit <= 1000 THEN 5
    ELSE 10

\* indices of the descriptors matched by the closure of `find`
MatchingLimits(rls) ==
    {j \in 1..Len(rls) :
        rls[j].limit_type = "REQUEST_WEIGHT" /\ rls[j].interval = "MINUTE"}

\* rate_limits.iter().find(..).map(|r| r.limit).unwrap_or(2400)
ApiLimitTotal(rls) ==
    IF MatchingLimits(rls) = {} THEN DefaultWeightLimit
    ELSE rls[CHOOSE j \in MatchingLimits(rls) :
                 \A m \in MatchingLimits(rls) : j <= m].limit

\* variant: the whole ceiling is budgeted, without the 10% margin
SafeCapacityNoMargin(total) == total

\* (api_limit_total as f64 * 0.90) as u32 : the product truncated toward 0
SafeCapacity(total) == (total * 9) \div 10

\* variant: the quotient is not clamped to 1
BatchSizeNoClamp(safe, weight) == safe \div weight

\* std::cmp::max(1, safe_capacity / weight_per_req)
BatchSize(safe, weight) == Max(1, safe \div weight)

\* the closure of the symbol filter
SymbolMatches(s) ==
    /\ s.status = "TRADING"
    /\ s.contract_type = ContractType
    /\ s.quote_asset = QuoteAsset

\* Iterator::filter(..).collect()
RECURSIVE FilterSymbols(_)
FilterSymbols(ss) ==
    IF ss = <<>> THEN <<>>
    ELSE IF SymbolMatches(Head(ss))
         THEN <<Head(ss)>> \o FilterSymbols(Tail(ss))
         ELSE FilterSymbols(Tail(ss))

\* variant: the chunks are taken with a stride one too long
ChunkFirstStride(c, size) == c * (size + 1) + 1

\* first and last element (1-based) of chunk number c (0-based) of
\* slice.chunks(size) over a slice of n elements
ChunkFirst(c, size) == c * size + 1
ChunkLast(c, size, n) == Min((c + 1) * size, n)

\* ban_until = ts_match.as_str().parse().unwrap_or(0); until_kind tells what
\* the regex until\s+(\d+) captured: "none" (no match), "overflow" (digits
\* that do not fit u64) or "num" (the number until_val)
ParseBanUntil(body) == IF body.until_kind = "num" THEN body.until_val ELSE 0

\* variant: the 5 second buffer is left out
BanWaitMsNoBuffer(ban_until, now) == ban_until - now

\* the duration passed to tokio::time::sleep, in ms:
\* (ban_until - now) / 1000.0 + 5.0 seconds
BanWaitMs(ban_until, now) == (ban_until - now) + BanBufferSecs * 1000

\* variant: a ban that ends now still suspends the task
BanSleepInclusive(body, now) ==
    IF /\ body.text_ok
       /\ body.marker
       /\ body.until_kind # "none"
       /\ ParseBanUntil(body) >= now
    THEN BanWaitMs(ParseBanUntil(body), now)
    ELSE -1

\* Some(ms to sleep) when the ban branch is taken, -1 when it is not
BanSleep(body, now) ==
    IF /\ body.text_ok
       /\ body.marker
       /\ body.until_kind # "none"
       /\ ParseBanUntil(body) > now
    THEN BanWaitMs(ParseBanUntil(body), now)
    ELSE -1

\* status.is_success()
IsSuccess(status) == status >= 200 /\ status <= 299

\* status == 418 || status == 429
IsRateLimit(status) == status = 418 \/ status = 429

\* elapsed.as_secs()
AsSecs(ms) == ms \div 1000

\* variant: the subtraction is made whatever the elapsed time
PacingWaitUnguarded(more, elapsed) ==
    IF more THEN PacingTargetSecs * 1000 - elapsed ELSE -1

\* variant: no sleep between the batches
PacingWaitNone(more, elapsed) == -1

\* variant: the pacing sleep fills the minute without the 2 s buffer
PacingWaitNoBuffer(more, elapsed) ==
    IF more /\ AsSecs(elapsed) < PacingWindowSecs
    THEN PacingWindowSecs * 1000 - elapsed
    ELSE -1

\* the inter-batch sleep in ms, -1 when none is made
PacingWait(more, elapsed) ==
    IF more /\ AsSecs(elapsed) < PacingWindowSecs
    THEN PacingTargetSecs * 1000 - elapsed
    ELSE -1


(***************************************************************************)
(* f64 values.  A finite value is a fraction n/d in lowest terms, d > 0;   *)
(* the rounding of the operations is not modelled.                        *)
(***************************************************************************)
Abs(x) == IF x < 0 THEN -x ELSE x

Sign(x) == IF x < 0 THEN -1 ELSE IF x > 0 THEN 1 ELSE 0

RECURSIVE Gcd(_, _)
Gcd(a, b) == IF b = 0 THEN a ELSE Gcd(b, a % b)

\* the finite value n/d, d # 0
Num(n, d) ==
    LET g == Gcd(Abs(n), Abs(d))
    IN  [k |-> "num", n |-> Sign(d) * (n \div g), d |-> Abs(d) \div g]

F64(n) == Num(n, 1)

\* f64::NAN
NaN == [k |-> "nan", n |-> 0, d |-> 1]

\* f64::INFINITY (s = 1) and f64::NEG_INFINITY (s = -1)
Inf(s) == [k |-> "inf", n |-> s, d |-> 1]

\* a / b
f64_div(a, b) ==
    IF a.k = "nan" \/ b.k = "nan" THEN NaN
    ELSE IF a.k = "inf"
         THEN IF b.k = "inf" THEN NaN
              ELSE Inf(a.n * (IF b.n < 0 THEN -1 ELSE 1))
    ELSE IF b.k = "inf" THEN F64(0)
    ELSE IF b.n = 0
         THEN IF a.n = 0 THEN NaN ELSE Inf(Sign(a.n))
    ELSE Num(a.n * b.d, a.d * b.n)

\* a - b
f64_sub(a, b) ==
    IF a.k = "nan" \/ b.k = "nan" THEN NaN
    ELSE IF a.k = "inf"
         THEN IF b.k = "inf" /\ b.n = a.n THEN NaN ELSE a
    ELSE IF b.k = "inf" THEN Inf(-b.n)
    ELSE Num(a.n * b.d - b.n * a.d, a.d * b.d)

\* a * b
f64_mul(a, b) ==
    IF a.k = "nan" \/ b.k = "nan" THEN NaN
    ELSE IF a.k = "inf" \/ b.k = "inf"
         THEN IF a.n = 0 \/ b.n = 0 THEN NaN ELSE Inf(Sign(a.n) * Sign(b.n))
    ELSE Num(a.n * b.n, a.d * b.d)

\* a.partial_cmp(&b): "none" stands for None
partial_cmp(a, b) ==
    IF a.k = "nan" \/ b.k = "nan" THEN "none"
    ELSE IF a.k = "inf" \/ b.k = "inf"
         THEN IF a.k = b.k /\ a.n = b.n THEN "equal"
              ELSE IF a.k = "inf" /\ a.n > 0 THEN "greater"
              ELSE IF a.k = "inf" THEN "less"
              ELSE IF b.n > 0 THEN "less" ELSE "greater"
    ELSE IF a.n * b.d < b.n * a.d THEN "less"
    ELSE IF a.n * b.d > b.n * a.d THEN "greater"
    ELSE "equal"

\* a == b
f64_eq(a, b) == partial_cmp(a, b) = "equal"

(***************************************************************************)
(* cumulative_price_change: InputKline and analyze_klines_data             *)
(***************************************************************************)
\* Option<f64>
NoneF64 == [some |-> FALSE, v |-> F64(0)]
SomeF64(x) == [some |-> TRUE, v |-> x]

\* Option<i64>
NoneI64 == [some |-> FALSE, v |-> 0]
SomeI64(x) == [some |-> TRUE, v |-> x]

InputKline(o, c, t) == [open |-> o, close |-> c, close_time |-> t]

\* Option<(f64, i64)>
NoMovement == [some |-> FALSE, movement |-> F64(0), time |-> 0]
SomeMovement(m, t) == [some |-> TRUE, movement |-> m, time |-> t]

\* the value of rd_out before the call returns
NotReturned == [some |-> FALSE, movement |-> F64(0), time |-> -1]

is_valid(kl) == kl.open.some /\ kl.close.some /\ kl.close_time.some

\* klines.iter().find(is_valid), from index i on: the index found, 0 for None
RECURSIVE find(_, _)
find(klines, i) ==
    IF i > Len(klines) THEN 0
    ELSE IF is_valid(klines[i]) THEN i
    ELSE find(klines, i + 1)

\* klines.iter().rfind(is_valid), from index i down: the index found, 0 for None
RECURSIVE rfind(_, _)
rfind(klines, i) ==
    IF i < 1 THEN 0
    ELSE IF is_valid(klines[i]) THEN i
    ELSE rfind(klines, i - 1)

\* variant: the first candle is taken, valid or not
first_index_unchecked(klines) == 1

\* klines.iter().find(is_valid)
first_index(klines) == find(klines, 1)

\* klines.iter().rfind(is_valid)
last_index(klines) == rfind(klines, Len(klines))

\* variant: no guard against a first close of 0
is_zero_never(x) == FALSE

\* first_close == 0.0
is_zero(x) == f64_eq(x, F64(0))

analyze_klines_data(klines) ==
    IF klines = <<>> THEN NoMovement
    ELSE LET fi == first_index(klines)
             li == last_index(klines)
         IN  IF fi = 0 \/ li = 0 THEN NoMovement
             ELSE IF ~klines[fi].close.some \/ ~klines[li].close.some
                     \/ ~klines[li].close_time.some
                  THEN NoMovement
             ELSE LET first_close == klines[fi].close.v
                      last_close == klines[li].close.v
                      last_close_time == klines[li].close_time.v
                  IN  IF is_zero(first_close) THEN NoMovement
                      ELSE SomeMovement(
                             f64_mul(f64_sub(f64_div(last_close, first_close),
                                             F64(1)), F64(100)),
                             last_close_time)

(***************************************************************************)
(* State                                                                   *)
(***************************************************************************)
VARIABLES
    files,            \* the records of the storage directory
    pc,               \* position of klines::run
    run_result,       \* "running", "ok" (Ok(())) or "err"
    err_at,           \* the step whose error was propagated by `?`
    limit_val,        \* config.klines.limit
    weight_per_req,
    api_limit_total,
    safe_capacity,
    batch_size,
    symbols_to_fetch,
    chunk_i,          \* i of the enumerate() of the chunks
    start_time,       \* Instant::now() of the current batch
    tasks,            \* one fetch_kline future per filtered instrument
    all_results,
    sleep_until,      \* deadline of the inter-batch sleep
    clock,            \* monotonic time, ms
    dispatch_log,     \* history: one entry per dispatched batch
    pace_log          \* history: one entry per joined batch

\* a call of calculate_request_weight on its own
VARIABLES
    cw_limit,         \* the argument
    cw_weight         \* the value returned, -1 before the call

\* the state of klines::run
sched_vars == <<files, pc, run_result, err_at, limit_val, weight_per_req,
                api_limit_total, safe_capacity, batch_size, symbols_to_fetch,
                chunk_i, start_time, tasks, all_results, sleep_until, clock,
                dispatch_log, pace_log>>

\* AsyncStorageManager save and load of one key on their own
VARIABLES
    st_disk,          \* the content of the two paths of the key
    sv_pc,            \* position of save
    sv_data,          \* the record save was called with, 0 when none
    sv_result,        \* what the last save returned
    ld_pc,            \* position of load
    ld_buf,           \* content read by load
    ld_result,        \* what the last load returned
    st_done,          \* history: the record of the last rename, 0 when none
    st_prev,          \* history: the record replaced by the last rename
    st_saves,         \* history: number of saves started
    st_crashes        \* history: number of crashes

weight_vars == <<cw_limit, cw_weight>>

store_vars == <<st_disk, sv_pc, sv_data, sv_result, ld_pc, ld_buf, ld_result,
                st_done, st_prev, st_saves, st_crashes>>

\* a call of analyze_klines_data on its own
VARIABLES
    rd_klines,        \* the argument
    rd_out            \* the value returned

reduce_vars == <<rd_klines, rd_out>>

\* cumulative_price_change::run
VARIABLES
    an_pc,            \* position of the run
    an_result,        \* "running", "ok" for Ok(()), "err" for Err
    an_mal,           \* the malformed candle of the capture, if any
    an_data,          \* all_symbols_data
    an_i,             \* index of the next element of all_symbols_data
    an_results,       \* results
    an_max_close_time,
    an_out,           \* the content of results.json and results.json.tmp
    an_collected,     \* history: results as the loop left it
    an_saves          \* history: number of calls of save

analyze_vars == <<an_pc, an_result, an_mal, an_data, an_i, an_results,
                  an_max_close_time, an_out, an_collected, an_saves>>

\* analysis::run_analysis_pipeline
VARIABLES
    pp_pc,            \* position of the pipeline
    pp_result,        \* "running", "ok" for Ok(()), "err" for Err
    pp_err_at,        \* the step whose error the pipeline returned
    pp_info_saves     \* history: number of saves of the metadata capture

pipe_vars == <<pp_pc, pp_result, pp_err_at, pp_info_saves>>

\* a call of filter_utils::matches_filters on its own
VARIABLES
    fl_symbol,        \* the instrument: attribute name -> JSON value
    fl_filters,       \* the predicates: attribute name -> required literal
    fl_out            \* the value returned: "pending", "true" or "false"

filter_vars == <<fl_symbol, fl_filters, fl_out>>

\* tui::load_data after a run of the analysis
VARIABLES
    tl_result,        \* "pending", "ok" or "err": what load_data returned
    tl_data           \* the OutputData it returned

load_vars == <<tl_result, tl_data>>

\* tui::run_app: the display loop and the refresh tasks it spawns
VARIABLES
    ui_pc,            \* position of the loop: "recv", "poll" or "quit"
    is_refreshing,    \* app.is_refreshing
    data_rx,          \* the results waiting in the channel
    refresh_tasks,    \* the tasks spawned by F5, in spawn order
    app_data          \* app.data: the snapshot on display, by its number

tui_vars == <<ui_pc, is_refreshing, data_rx, refresh_tasks, app_data>>

\* the state outside klines::run
aux_vars == <<weight_vars, store_vars, reduce_vars, analyze_vars, pipe_vars,
              filter_vars, load_vars, tui_vars>>

\* the state a call of calculate_request_weight leaves alone
weight_rest == <<sched_vars, store_vars, reduce_vars, analyze_vars, pipe_vars,
    filter_vars, load_vars, tui_vars>>

\* the state save and load on their own leave alone
store_rest == <<sched_vars, weight_vars, reduce_vars, analyze_vars, pipe_vars,
    filter_vars, load_vars, tui_vars>>

\* the state a call of analyze_klines_data leaves alone
reduce_rest == <<sched_vars, weight_vars, store_vars, analyze_vars, pipe_vars,
    filter_vars, load_vars, tui_vars>>

\* the state cumulative_price_change::run leaves alone
analyze_rest == <<sched_vars, weight_vars, store_vars, reduce_vars, pipe_vars,
    filter_vars, load_vars, tui_vars>>

\* the state neither the pipeline nor the runs it calls touch
pipe_rest == <<weight_vars, store_vars, reduce_vars, filter_vars, load_vars, tui_vars>>

\* the state a call of matches_filters leaves alone
filter_rest == <<sched_vars, weight_vars, store_vars, reduce_vars, analyze_vars,
                 pipe_vars, load_vars, tui_vars>>

\* the state load_data leaves alone
load_rest == <<sched_vars, weight_vars, store_vars, reduce_vars, analyze_vars,
               pipe_vars, filter_vars, tui_vars>>

\* the state the display loop leaves alone
tui_rest == <<sched_vars, weight_vars, store_vars, reduce_vars, analyze_vars,
              pipe_vars, filter_vars, load_vars>>

vars == <<sched_vars, aux_vars>>

setup_vars == <<limit_val, weight_per_req, api_limit_total, safe_capacity,
                batch_size, symbols_to_fetch>>
hist_vars == <<dispatch_log, pace_log>>

\* SystemTime::now() in ms since the epoch
WallNow == EpochMs + clock

NoFile == [kind |-> "none"]
Garbage == [kind |-> "garbage"]

NoBody == [text_ok |-> FALSE, marker |-> FALSE, until_kind |-> "none",
           until_val |-> 0]

IdleTask == [pc |-> "idle", batch |-> -1, status |-> 0, body |-> NoBody,
             seen_at |-> 0, wait_ms |-> -1, wake_at |-> 0,
             result |-> "pending"]

Body(m, k, v) == [text_ok |-> TRUE, marker |-> m, until_kind |-> k,
                  until_val |-> v]

\* bodies of a response with status st received at wall time `now`; NoBody
\* is a body whose read fails
BanBodies(st, now) ==
    IF st = 418
    THEN { NoBody,
           Body(FALSE, "num", now + 10000),
           Body(TRUE, "none", 0),
           Body(TRUE, "overflow", 0),
           Body(TRUE, "num", now - 1),
           Body(TRUE, "num", now),
           Body(TRUE, "num", now + 10000),
           Body(TRUE, "num", now + 100000) }
    ELSE { Body(FALSE, "none", 0),
           Body(TRUE, "num", now + 10000) }

\* statuses of the responses; 0 stands for Err(e) of send()
Statuses == {0, 200, 404, 418, 429}

\* no call of calculate_request_weight on its own is made
WeightIdle == cw_limit = 0 /\ cw_weight = -1

\* a path without a file
NoContent == [rec |-> 0, len |-> 0]

\* no save or load on its own is made
StoreIdle ==
    /\ st_disk = [final |-> NoContent, tmp |-> NoContent]
    /\ sv_pc = "idle"
    /\ sv_data = 0
    /\ sv_result = "none"
    /\ ld_pc = "idle"
    /\ ld_buf = NoContent
    /\ ld_result = [kind |-> "none", rec |-> 0]
    /\ st_done = 0
    /\ st_prev = 0
    /\ st_saves = 0
    /\ st_crashes = 0

\* a call of analyze_klines_data on its own is not made
ReduceIdle == rd_klines = <<>> /\ rd_out = NotReturned

\* no candle of the capture is malformed
NoMal == [sym |-> 0, field |-> "none", how |-> "none"]

\* cumulative_price_change::run is not started
AnalyzeIdle ==
    /\ an_pc = "not_started"
    /\ an_result = "running"
    /\ an_mal = NoMal
    /\ an_data = <<>>
    /\ an_i = 0
    /\ an_results = <<>>
    /\ an_max_close_time = 0
    /\ an_out = [results |-> NoFile, results_tmp |-> NoFile]
    /\ an_collected = <<>>
    /\ an_saves = 0

\* run_analysis_pipeline is not started
PipeIdle ==
    /\ pp_pc = "not_started"
    /\ pp_result = "running"
    /\ pp_err_at = "none"
    /\ pp_info_saves = 0

\* no call of matches_filters on its own is made
FilterIdle == fl_symbol = <<>> /\ fl_filters = <<>> /\ fl_out = "pending"

\* load_data has not been called; the record is the one App::new falls back to
LoadIdle ==
    /\ tl_result = "pending"
    /\ tl_data = [last_updated_timestamp |-> 0, results |-> <<>>]

\* the display loop has not started
TuiIdle ==
    /\ ui_pc = "not_started"
    /\ is_refreshing = FALSE
    /\ data_rx = <<>>
    /\ refresh_tasks = <<>>
    /\ app_data = 0

\* nothing outside klines::run is active
AuxIdle ==
    /\ WeightIdle /\ StoreIdle /\ ReduceIdle /\ AnalyzeIdle /\ PipeIdle
    /\ FilterIdle /\ LoadIdle /\ TuiIdle

\* klines::run is not started
SchedStopped ==
    /\ pc = "not_started"
    /\ run_result = "running"
    /\ err_at = "none"
    /\ limit_val = 0
    /\ weight_per_req = 0
    /\ api_limit_total = 0
    /\ safe_capacity = 0
    /\ batch_size = 0
    /\ symbols_to_fetch = <<>>
    /\ chunk_i = 0
    /\ start_time = 0
    /\ tasks = <<>>
    /\ all_results = <<>>
    /\ sleep_until = 0
    /\ clock = 0
    /\ dispatch_log = <<>>
    /\ pace_log = <<>>

\* klines::run is not started and storage holds no record
SchedIdle ==
    /\ files = [config |-> NoFile, exchange_info |-> NoFile,
                klines |-> NoFile, klines_tmp |-> NoFile]
    /\ SchedStopped

\* nothing but a call of calculate_request_weight is active
WeightRestIdle == SchedIdle /\ StoreIdle /\ ReduceIdle /\ AnalyzeIdle /\ PipeIdle
    /\ FilterIdle /\ LoadIdle /\ TuiIdle

\* nothing but save and load on their own is active
StoreRestIdle == SchedIdle /\ WeightIdle /\ ReduceIdle /\ AnalyzeIdle /\ PipeIdle
    /\ FilterIdle /\ LoadIdle /\ TuiIdle

\* nothing but a call of analyze_klines_data is active
ReduceRestIdle == SchedIdle /\ WeightIdle /\ StoreIdle /\ AnalyzeIdle /\ PipeIdle
    /\ FilterIdle /\ LoadIdle /\ TuiIdle

\* nothing but cumulative_price_change::run is active
AnalyzeRestIdle == SchedStopped /\ WeightIdle /\ StoreIdle /\ ReduceIdle /\ PipeIdle
    /\ FilterIdle /\ LoadIdle /\ TuiIdle

\* nothing the pipeline does not touch is active
PipeRestIdle ==
    WeightIdle /\ StoreIdle /\ ReduceIdle /\ FilterIdle /\ LoadIdle /\ TuiIdle

\* nothing but a call of matches_filters is active
FilterRestIdle ==
    /\ SchedIdle /\ WeightIdle /\ StoreIdle /\ ReduceIdle /\ AnalyzeIdle /\ PipeIdle
    /\ LoadIdle /\ TuiIdle

\* nothing but the display loop is active
TuiRestIdle ==
    /\ SchedIdle /\ WeightIdle /\ StoreIdle /\ ReduceIdle /\ AnalyzeIdle /\ PipeIdle
    /\ FilterIdle /\ LoadIdle

Init ==
    /\ files \in
         { [config |-> c, exchange_info |-> e,
            klines |-> NoFile, klines_tmp |-> NoFile] :
             c \in {NoFile} \cup {[kind |-> "json", limit |-> l] : l \in Limits},
             e \in {Garbage} \cup
                   {[kind |-> "json", rate_limits |-> r, symbols |-> SymbolList(n)] :
                       r \in RateLimitLists, n \in {0, 1, MaxSymbols}} }
    /\ pc = "new_storage"
    /\ run_result = "running"
    /\ err_at = "none"
    /\ limit_val = 0
    /\ weight_per_req = 0
    /\ api_limit_total = 0
    /\ safe_capacity = 0
    /\ batch_size = 0
    /\ symbols_to_fetch = <<>>
    /\ chunk_i = 0
    /\ start_time = 0
    /\ tasks = <<>>
    /\ all_results = <<>>
    /\ sleep_until = 0
    /\ clock = 0
    /\ dispatch_log = <<>>
    /\ pace_log = <<>>
    /\ AuxIdle

\* `?` on an Err: the run returns the error
Fail(step) ==
    /\ pc' = "failed"
    /\ run_result' = "err"
    /\ err_at' = step

(***************************************************************************)
(* klines::run, setup                                                      *)
(***************************************************************************)
\* AsyncStorageManager::new_relative("storage").await?
NewStorage ==
    /\ pc = "new_storage"
    /\ \/ /\ pc' = "load_config"
          /\ UNCHANGED <<run_result, err_at>>
       \/ Fail("new_storage")
    /\ UNCHANGED <<files, setup_vars, chunk_i, start_time, tasks, all_results,
                   sleep_until, clock, hist_vars>>
    /\ UNCHANGED aux_vars

\* storage.load("config").await? and calculate_request_weight(limit_val)
LoadConfig ==
    /\ pc = "load_config"
    /\ IF files.config.kind = "json"
       THEN /\ limit_val' = files.config.limit
            /\ weight_per_req' = calculate_request_weight(files.config.limit)
            /\ pc' = "load_exchange_info"
            /\ UNCHANGED <<run_result, err_at>>
       ELSE /\ Fail("load_config")
            /\ UNCHANGED <<limit_val, weight_per_req>>
    /\ UNCHANGED <<files, api_limit_total, safe_capacity, batch_size,
                   symbols_to_fetch, chunk_i, start_time, tasks, all_results,
                   sleep_until, clock, hist_vars>>
    /\ UNCHANGED aux_vars

\* variant: a record that cannot be loaded is taken as an empty one
LoadExchangeInfoLenient ==
    /\ pc = "load_exchange_info"
    /\ IF files.exchange_info.kind = "json"
       THEN /\ api_limit_total' = ApiLimitTotal(files.exchange_info.rate_limits)
            /\ symbols_to_fetch' = FilterSymbols(files.exchange_info.symbols)
       ELSE /\ api_limit_total' = DefaultWeightLimit
            /\ symbols_to_fetch' = <<>>
    /\ safe_capacity' = SafeCapacity(api_limit_total')
    /\ batch_size' = BatchSize(safe_capacity', weight_per_req)
    /\ tasks' = [k \in 1..Len(symbols_to_fetch') |-> IdleTask]
    /\ pc' = "build_client"
    /\ UNCHANGED <<run_result, err_at>>
    /\ UNCHANGED <<files, limit_val, weight_per_req, chunk_i, start_time,
                   all_results, sleep_until, clock, hist_vars>>
    /\ UNCHANGED aux_vars

\* storage.load("exchange_info").await?, the batch size and the filter
LoadExchangeInfo ==
    /\ pc = "load_exchange_info"
    /\ IF files.exchange_info.kind = "json"
       THEN /\ api_limit_total' = ApiLimitTotal(files.exchange_info.rate_limits)
            /\ safe_capacity' = SafeCapacity(api_limit_total')
            /\ batch_size' = BatchSize(safe_capacity', weight_per_req)
            /\ symbols_to_fetch' = FilterSymbols(files.exchange_info.symbols)
            /\ tasks' = [k \in 1..Len(symbols_to_fetch') |-> IdleTask]
            /\ pc' = "build_client"
            /\ UNCHANGED <<run_result, err_at>>
       ELSE /\ Fail("load_exchange_info")
            /\ UNCHANGED <<api_limit_total, safe_capacity, batch_size,
                           symbols_to_fetch, tasks>>
    /\ UNCHANGED <<files, limit_val, weight_per_req, chunk_i, start_time,
                   all_results, sleep_until, clock, hist_vars>>
    /\ UNCHANGED aux_vars

\* Client::builder().pool_max_idle_per_host(50).build()?
BuildClient ==
    /\ pc = "build_client"
    /\ \/ /\ pc' = "loop"
          /\ UNCHANGED <<run_result, err_at>>
       \/ Fail("build_client")
    /\ UNCHANGED <<files, setup_vars, chunk_i, start_time, tasks, all_results,
                   sleep_until, clock, hist_vars>>
    /\ UNCHANGED aux_vars


(***************************************************************************)
(* klines::run, the fetch loop                                             *)
(***************************************************************************)
NumSymbols == Len(symbols_to_fetch)

\* the task indices of chunk number c
ChunkOf(c) == ChunkFirst(c, batch_size)..ChunkLast(c, batch_size, NumSymbols)

\* the chunks iterator has another chunk
HasChunk(c) == ChunkFirst(c, batch_size) <= NumSymbols

\* current_index + batch_size < symbols_to_fetch.len()
MoreChunks(c) == c * batch_size + batch_size < NumSymbols

\* for (i, batch) in chunks(batch_size).enumerate(): start_time, the tasks of
\* the batch, and the first poll of join_all, which runs every task up to its
\* send().await
Dispatch ==
    /\ pc = "loop"
    /\ HasChunk(chunk_i)
    /\ start_time' = clock
    /\ tasks' = [k \in DOMAIN tasks |->
                    IF k \in ChunkOf(chunk_i)
                    THEN [IdleTask EXCEPT !.pc = "sending", !.batch = chunk_i]
                    ELSE tasks[k]]
    /\ dispatch_log' = Append(dispatch_log,
                              [batch |-> chunk_i, at |-> clock,
                               first |-> ChunkFirst(chunk_i, batch_size),
                               last |-> ChunkLast(chunk_i, batch_size, NumSymbols)])
    /\ pc' = "join"
    /\ UNCHANGED <<files, run_result, err_at, setup_vars, chunk_i, all_results,
                   sleep_until, clock, pace_log>>
    /\ UNCHANGED aux_vars

\* the chunks iterator is exhausted
LoopExit ==
    /\ pc = "loop"
    /\ ~HasChunk(chunk_i)
    /\ pc' = "save_write"
    /\ UNCHANGED <<files, run_result, err_at, setup_vars, chunk_i, start_time,
                   tasks, all_results, sleep_until, clock, hist_vars>>
    /\ UNCHANGED aux_vars

Resolve(t, res) ==
    [t EXCEPT !.pc = "resolved", !.result = res]

\* variant: the status of the response is not looked at before decoding
AfterSendNoStatusCheck(st) ==
    IF st = 0 THEN "none"
    ELSE IF IsRateLimit(st) THEN "text"
    ELSE "json"

\* where fetch_kline goes once send() has returned: "none" (return None),
\* "text" (response.text().await) or "json" (response.json().await)
AfterSend(st) ==
    IF st = 0 THEN "none"
    ELSE IF IsRateLimit(st) THEN "text"
    ELSE IF ~IsSuccess(st) THEN "none"
    ELSE "json"

\* variant: a suspended sibling holds up the delivery of the response, as a
\* blocking sleep or a shared resume-not-before gate would
SendDoneBlocked(k) ==
    /\ tasks[k].pc = "sending"
    /\ \A j \in DOMAIN tasks : tasks[j].pc # "sleeping"
    /\ \E st \in Statuses :
         LET t == [tasks[k] EXCEPT !.status = st] IN
         tasks' = [tasks EXCEPT ![k] =
                      CASE AfterSend(st) = "none" -> Resolve(t, "none")
                        [] AfterSend(st) = "text" -> [t EXCEPT !.pc = "reading_text"]
                        [] OTHER -> [t EXCEPT !.pc = "reading_json"]]
    /\ UNCHANGED <<files, pc, run_result, err_at, setup_vars, chunk_i,
                   start_time, all_results, sleep_until, clock, hist_vars>>
    /\ UNCHANGED aux_vars

\* fetch_kline: client.get(url).query(&query).send().await returns
SendDone(k) ==
    /\ tasks[k].pc = "sending"
    /\ \E st \in Statuses :
         LET t == [tasks[k] EXCEPT !.status = st] IN
         tasks' = [tasks EXCEPT ![k] =
                      CASE AfterSend(st) = "none" -> Resolve(t, "none")
                        [] AfterSend(st) = "text" -> [t EXCEPT !.pc = "reading_text"]
                        [] OTHER -> [t EXCEPT !.pc = "reading_json"]]
    /\ UNCHANGED <<files, pc, run_result, err_at, setup_vars, chunk_i,
                   start_time, all_results, sleep_until, clock, hist_vars>>
    /\ UNCHANGED aux_vars

\* fetch_kline: response.text().await returns on a 418/429
TextDone(k) ==
    /\ tasks[k].pc = "reading_text"
    /\ \E body \in BanBodies(tasks[k].status, WallNow) :
         LET w == BanSleep(body, WallNow)
             t == [tasks[k] EXCEPT !.body = body]
         IN
         tasks' = [tasks EXCEPT ![k] =
                      IF w >= 0
                      THEN [t EXCEPT !.pc = "sleeping", !.seen_at = WallNow,
                                     !.wait_ms = w, !.wake_at = clock + w]
                      ELSE Resolve(t, "none")]
    /\ UNCHANGED <<files, pc, run_result, err_at, setup_vars, chunk_i,
                   start_time, all_results, sleep_until, clock, hist_vars>>
    /\ UNCHANGED aux_vars

\* fetch_kline: response.json::<Vec<Vec<Value>>>().await returns
JsonDone(k) ==
    /\ tasks[k].pc = "reading_json"
    /\ \E ok \in BOOLEAN :
         tasks' = [tasks EXCEPT ![k] =
                      Resolve(tasks[k], IF ok THEN "some" ELSE "none")]
    /\ UNCHANGED <<files, pc, run_result, err_at, setup_vars, chunk_i,
                   start_time, all_results, sleep_until, clock, hist_vars>>
    /\ UNCHANGED aux_vars

\* variant: the suspended fetch resumes before its deadline
BanWakeEarly(k) ==
    /\ tasks[k].pc = "sleeping"
    /\ tasks' = [tasks EXCEPT ![k] = Resolve(tasks[k], "none")]
    /\ UNCHANGED <<files, pc, run_result, err_at, setup_vars, chunk_i,
                   start_time, all_results, sleep_until, clock, hist_vars>>
    /\ UNCHANGED aux_vars

\* fetch_kline: tokio::time::sleep(wait_sec).await returns; return None
BanWake(k) ==
    /\ tasks[k].pc = "sleeping"
    /\ clock >= tasks[k].wake_at
    /\ tasks' = [tasks EXCEPT ![k] = Resolve(tasks[k], "none")]
    /\ UNCHANGED <<files, pc, run_result, err_at, setup_vars, chunk_i,
                   start_time, all_results, sleep_until, clock, hist_vars>>
    /\ UNCHANGED aux_vars

\* variant: the barrier never opens
JoinReadyNever == FALSE

\* variant: the scheduler does not await the batch
JoinReadyNoWait == TRUE

\* variant: a race, ready as soon as one future of the batch has completed
JoinReadyFirst == \E k \in ChunkOf(chunk_i) : tasks[k].pc = "resolved"

\* join_all(tasks) is ready: every future of the batch has completed
JoinReady == \A k \in ChunkOf(chunk_i) : tasks[k].pc = "resolved"

\* variant: the records of a batch are pushed last to first
RECURSIVE FlattenReversed(_, _, _)
FlattenReversed(ts, lo, hi) ==
    IF lo > hi THEN <<>>
    ELSE FlattenReversed(ts, lo + 1, hi) \o
         (IF ts[lo].result = "some" THEN <<symbols_to_fetch[lo].symbol>>
          ELSE <<>>)

\* results.into_iter().flatten(): the records of tasks lo..hi, in task order
RECURSIVE Flatten(_, _, _)
Flatten(ts, lo, hi) ==
    IF lo > hi THEN <<>>
    ELSE (IF ts[lo].result = "some" THEN <<symbols_to_fetch[lo].symbol>>
          ELSE <<>>) \o Flatten(ts, lo + 1, hi)

\* join_all(tasks).await returns; the results are pushed to all_results, and
\* the rate-limit sleep is started when more batches are left
Join ==
    /\ pc = "join"
    /\ JoinReady
    /\ all_results' = all_results \o
           Flatten(tasks, ChunkFirst(chunk_i, batch_size),
                   ChunkLast(chunk_i, batch_size, NumSymbols))
    /\ tasks' = [k \in DOMAIN tasks |->
                    IF k \in ChunkOf(chunk_i) /\ tasks[k].pc = "resolved"
                    THEN [IdleTask EXCEPT !.pc = "joined", !.batch = chunk_i,
                                          !.result = tasks[k].result]
                    ELSE tasks[k]]
    /\ LET elapsed == clock - start_time
           wait == PacingWait(MoreChunks(chunk_i), elapsed)
       IN /\ pace_log' = Append(pace_log,
                                [batch |-> chunk_i, at |-> clock,
                                 elapsed |-> elapsed,
                                 more |-> MoreChunks(chunk_i), wait |-> wait])
          /\ IF wait >= 0
             THEN pc' = "pacing" /\ sleep_until' = clock + wait
             ELSE pc' = "loop" /\ UNCHANGED sleep_until
    /\ chunk_i' = chunk_i + 1
    /\ UNCHANGED <<files, run_result, err_at, setup_vars, start_time, clock,
                   dispatch_log>>
    /\ UNCHANGED aux_vars

\* tokio::time::sleep(wait_time).await returns
PacingWake ==
    /\ pc = "pacing"
    /\ clock >= sleep_until
    /\ pc' = "loop"
    /\ UNCHANGED <<files, run_result, err_at, setup_vars, chunk_i, start_time,
                   tasks, all_results, sleep_until, clock, hist_vars>>
    /\ UNCHANGED aux_vars

(***************************************************************************)
(* klines::run, storage.save("klines", &all_results).await?                *)
(***************************************************************************)
\* AsyncStorageManager::save: tokio::fs::write(&tmp_path, json_bytes).await?
SaveWrite ==
    /\ pc = "save_write"
    /\ \/ /\ files' = [files EXCEPT !.klines_tmp =
                          [kind |-> "json", data |-> all_results]]
          /\ pc' = "save_rename"
          /\ UNCHANGED <<run_result, err_at>>
       \/ /\ files' = [files EXCEPT !.klines_tmp = Garbage]
          /\ Fail("save")
    /\ UNCHANGED <<setup_vars, chunk_i, start_time, tasks, all_results,
                   sleep_until, clock, hist_vars>>
    /\ UNCHANGED aux_vars

\* AsyncStorageManager::save: tokio::fs::rename(tmp_path, final_path).await?
SaveRename ==
    /\ pc = "save_rename"
    /\ \/ /\ files' = [files EXCEPT !.klines = files.klines_tmp,
                                    !.klines_tmp = NoFile]
          /\ pc' = "done"
          /\ run_result' = "ok"
          /\ UNCHANGED err_at
       \/ /\ Fail("save")
          /\ UNCHANGED files
    /\ UNCHANGED <<setup_vars, chunk_i, start_time, tasks, all_results,
                   sleep_until, clock, hist_vars>>
    /\ UNCHANGED aux_vars

(***************************************************************************)
(* Passage of time                                                         *)
(***************************************************************************)
\* offsets from the dispatch of the batch at which the clock is observed
Offsets == {59999, 60000}

\* the instants the clock can advance to: the offsets after the dispatch of
\* the current batch and the deadlines of the armed timers
TickTargets ==
    {start_time + o : o \in Offsets}
    \cup {tasks[k].wake_at : k \in {j \in DOMAIN tasks : tasks[j].pc = "sleeping"}}
    \cup (IF pc = "pacing" THEN {sleep_until} ELSE {})

Tick ==
    /\ pc \in {"join", "pacing"}
    /\ \E t \in TickTargets :
         /\ t > clock
         /\ t <= MaxClock
         /\ clock' = t
    /\ UNCHANGED <<files, pc, run_result, err_at, setup_vars, chunk_i,
                   start_time, tasks, all_results, sleep_until, hist_vars>>
    /\ UNCHANGED aux_vars

Next ==
    \/ NewStorage
    \/ LoadConfig
    \/ LoadExchangeInfo
    \/ BuildClient
    \/ Dispatch
    \/ LoopExit
    \/ \E k \in DOMAIN tasks : SendDone(k)
    \/ \E k \in DOMAIN tasks : TextDone(k)
    \/ \E k \in DOMAIN tasks : JsonDone(k)
    \/ \E k \in DOMAIN tasks : BanWake(k)
    \/ Join
    \/ PacingWake
    \/ SaveWrite
    \/ SaveRename
    \/ Tick

Spec == Init /\ [][Next]_vars


(***************************************************************************)
(* Properties of the batch scheduler                                       *)
(***************************************************************************)
\* a fetch that has been dispatched and has not resolved
InFlight(k) ==
    tasks[k].pc \in {"sending", "reading_text", "reading_json", "sleeping"}

\* the pacing delay requested after batch entry p of pace_log
PaceDelay(p) == IF p.wait >= 0 THEN p.wait ELSE 0

\* C1: batches run strictly sequentially.  The fetches in flight at any time
\* all belong to one batch; while a fetch of a batch is in flight every fetch
\* of every earlier batch has resolved; and batch b+1 was dispatched no
\* earlier than the join of batch b plus the pacing delay of batch b.
C1_BatchesSequential ==
    /\ \A j, k \in DOMAIN tasks :
          InFlight(j) /\ InFlight(k) => tasks[j].batch = tasks[k].batch
    /\ \A j, k \in DOMAIN tasks :
          InFlight(k) /\ j < k /\ tasks[j].batch # tasks[k].batch
             => tasks[j].pc = "joined" /\ tasks[j].batch < tasks[k].batch
    /\ \A b \in 1..Len(dispatch_log) :
          b > 1 =>
             /\ Len(pace_log) >= b - 1
             /\ dispatch_log[b].at >=
                   pace_log[b - 1].at + PaceDelay(pace_log[b - 1])
             /\ pace_log[b - 1].at >= dispatch_log[b - 1].at

\* C1 witness: a fetch of the second batch is in flight after a pacing sleep
C1_Witness ==
    /\ Len(dispatch_log) = 2
    /\ pace_log[1].wait > 0
    /\ \E k \in DOMAIN tasks : InFlight(k) /\ tasks[k].batch = 1

\* C2: the join is a barrier.  Every fetch of every batch the scheduler has
\* moved past (merged, pacing or later) has resolved, and the result list
\* holds exactly the records of those batches, in task order.
C2_JoinBarrier ==
    /\ \A k \in DOMAIN tasks :
          k <= chunk_i * batch_size => tasks[k].pc = "joined"
    /\ pc \in {"loop", "join", "pacing", "save_write", "save_rename", "done"}
          => all_results = Flatten(tasks, 1, Min(chunk_i * batch_size, NumSymbols))

\* C2 witness: a batch of two fetches was merged with one record and one
\* discard, and the scheduler is pacing
C2_Witness ==
    /\ pc = "pacing"
    /\ batch_size = 2
    /\ chunk_i = 1
    /\ tasks[1].result = "none"
    /\ tasks[2].result = "some"
    /\ all_results = <<symbols_to_fetch[2].symbol>>

\* the number of chunks of the filtered list
NumChunks == (NumSymbols + batch_size - 1) \div batch_size

\* C3: no per-fetch outcome aborts the batch or the run.  A fetch that ended
\* in a connection error, a non-success status or a 418/429 has no record;
\* the run fails only in a setup step or in the save; and once the loop is
\* over every instrument was dispatched and resolved, every batch was
\* dispatched, and a run whose save succeeded returned Ok.
C3_FetchFailuresLocal ==
    /\ \A k \in DOMAIN tasks :
          tasks[k].pc = "resolved" /\ tasks[k].status # 200
             => tasks[k].result = "none"
    /\ run_result = "err" <=> pc = "failed"
    /\ pc = "failed" =>
          \/ err_at \in {"new_storage", "load_config", "load_exchange_info",
                         "build_client"} /\ dispatch_log = <<>>
          \/ err_at = "save"
    /\ pc \in {"save_write", "save_rename", "done"} \/ err_at = "save" =>
          /\ \A k \in DOMAIN tasks : tasks[k].pc = "joined"
          /\ Len(dispatch_log) = NumChunks
          /\ Len(pace_log) = NumChunks
    /\ pc = "done" => run_result = "ok" /\ files.klines.kind = "json"
                      /\ files.klines.data = all_results

\* C3 witness: the run returned Ok after three batches although a fetch of
\* the first and of the second batch yielded no record
C3_Witness ==
    /\ pc = "done"
    /\ run_result = "ok"
    /\ Len(dispatch_log) = 3
    /\ tasks[1].result = "none"
    /\ tasks[2].result = "none"
    /\ tasks[3].result = "some"


(***************************************************************************)
(* Properties of the ban/backoff handler                                   *)
(***************************************************************************)
\* the body read at wall time `now` carries the ban marker and a timestamp
\* after "until" that is later than `now`
BanAnnounced(body, now) ==
    /\ body.text_ok
    /\ body.marker
    /\ body.until_kind = "num"
    /\ body.until_val > now

\* C4: a fetch that reads a 418/429 body with the ban marker and a timestamp
\* T > now suspends for (T - now) + 5 s: it becomes suspended with a wake-up
\* time of now + (T - now) + 5000 ms, and it leaves the suspension only once
\* the clock has reached the wake-up time, resolving with no record and
\* without an error of the run.
C4_BanSuspends ==
    [][\A k \in DOMAIN tasks :
          /\ ( /\ tasks[k].pc = "reading_text"
               /\ tasks'[k].pc # "reading_text"
               /\ BanAnnounced(tasks'[k].body, WallNow) )
             => /\ tasks'[k].pc = "sleeping"
                /\ tasks'[k].result = "pending"
                /\ tasks'[k].wake_at =
                      clock + (tasks'[k].body.until_val - WallNow) + 5000
          /\ ( tasks[k].pc = "sleeping" /\ tasks'[k].pc # "sleeping" )
             => /\ clock >= tasks[k].wake_at
                /\ tasks'[k].pc = "resolved"
                /\ tasks'[k].result = "none"
                /\ run_result' = run_result
                /\ pc' = pc
      ]_vars

\* C4 witness: a ban announced 100 s ahead was slept through for 105 s and
\* the fetch resolved with no record
C4_Witness ==
    \E k \in DOMAIN tasks :
       /\ tasks[k].pc = "resolved"
       /\ tasks[k].body.until_val = tasks[k].seen_at + 100000
       /\ tasks[k].wait_ms = 105000
       /\ clock >= (tasks[k].seen_at - EpochMs) + 105000
       /\ tasks[k].result = "none"
       /\ run_result = "running"

\* C5: a fetch that reads a 418/429 body without the marker, without a
\* timestamp after "until", with an unparseable timestamp, or with a
\* timestamp not later than now resolves with no record in the same step,
\* without having been suspended and without time passing.
C5_NoBanNoSuspension ==
    [][\A k \in DOMAIN tasks :
          ( /\ tasks[k].pc = "reading_text"
            /\ tasks'[k].pc # "reading_text"
            /\ ~BanAnnounced(tasks'[k].body, WallNow) )
          => /\ tasks'[k].pc = "resolved"
             /\ tasks'[k].result = "none"
             /\ tasks'[k].wait_ms = -1
             /\ clock' = clock
      ]_vars

\* C5 witness: a 418 whose body has the marker and a timestamp equal to the
\* current time resolved without suspension
C5_Witness ==
    \E k \in DOMAIN tasks :
       /\ tasks[k].pc = "resolved"
       /\ tasks[k].status = 418
       /\ tasks[k].body.marker
       /\ tasks[k].body.until_kind = "num"
       /\ tasks[k].body.until_val = WallNow
       /\ tasks[k].wait_ms = -1
       /\ tasks[k].result = "none"

\* a step of the ban handler of task k: it starts or ends the suspension
BanStep(k) ==
    \/ tasks[k].pc = "reading_text" /\ tasks'[k].pc = "sleeping"
    \/ tasks[k].pc = "sleeping" /\ tasks'[k].pc # "sleeping"

\* C6: ban backoff is per task.  While a fetch is suspended, each sibling of
\* its batch that awaits its response or its body can take its next step,
\* and no sibling is cancelled; a step of the ban handler changes the state
\* of its own task only, nothing of a sibling or of the scheduler.
C6_BackoffPerTask ==
    /\ [](\A j, k \in DOMAIN tasks :
             (tasks[j].pc = "sleeping" /\ j # k /\ tasks[k].batch = tasks[j].batch)
             => /\ tasks[k].pc \in {"sending", "reading_text", "reading_json",
                                    "sleeping", "resolved"}
                /\ tasks[k].pc = "sending" => ENABLED SendDone(k)
                /\ tasks[k].pc = "reading_text" => ENABLED TextDone(k)
                /\ tasks[k].pc = "reading_json" => ENABLED JsonDone(k))
    /\ [][\A k \in DOMAIN tasks :
             BanStep(k) =>
                /\ \A j \in DOMAIN tasks : j # k => tasks'[j] = tasks[j]
                /\ UNCHANGED <<files, pc, run_result, err_at, setup_vars,
                               chunk_i, start_time, all_results, sleep_until,
                               clock, hist_vars>>
         ]_vars

\* C6 witness: while one fetch is still suspended, a sibling that received
\* its own rate-limit response later has already resolved
C6_Witness ==
    \E j, k \in DOMAIN tasks :
       /\ tasks[j].pc = "sleeping"
       /\ clock < tasks[j].wake_at
       /\ tasks[k].batch = tasks[j].batch
       /\ tasks[k].pc = "resolved"
       /\ tasks[k].seen_at > tasks[j].seen_at

(***************************************************************************)
(* Properties of the pacing and of the rate budget                         *)
(***************************************************************************)
\* C7: inter-batch pacing.  For every joined batch with elapsed time e from
\* its dispatch to its join: if later chunks remain the scheduler sleeps
\* 62 s - e when e < 60 s and does not sleep when e >= 60 s; after the final
\* chunk it does not sleep and goes on to the save.
C7_Pacing ==
    /\ Len(pace_log) <= Len(dispatch_log)
    /\ \A b \in 1..Len(pace_log) :
          LET e == pace_log[b].at - dispatch_log[b].at
              more == dispatch_log[b].last < NumSymbols
          IN /\ pace_log[b].elapsed = e
             /\ (more /\ e < 60000) => pace_log[b].wait = 62000 - e
             /\ (more /\ e >= 60000) => pace_log[b].wait = -1
             /\ ~more => pace_log[b].wait = -1
    /\ pc = "pacing" =>
          /\ pace_log[Len(pace_log)].wait >= 0
          /\ sleep_until = pace_log[Len(pace_log)].at + pace_log[Len(pace_log)].wait
    /\ (pc = "loop" /\ pace_log # <<>>) =>
          /\ clock >= pace_log[Len(pace_log)].at + PaceDelay(pace_log[Len(pace_log)])
          /\ dispatch_log[Len(pace_log)].last = NumSymbols => ~HasChunk(chunk_i)
    /\ pc \in {"save_write", "save_rename", "done"} /\ pace_log # <<>> =>
          pace_log[Len(pace_log)].wait = -1

\* C7 witness: three batches; the first joined after 59.999 s and was
\* followed by a sleep of 2.001 s, the second took 60 s or more and was
\* followed by no sleep, the third was the last
C7_Witness ==
    /\ Len(pace_log) = 3
    /\ pace_log[1].elapsed = 59999
    /\ pace_log[1].wait = 2001
    /\ pace_log[2].elapsed >= 60000
    /\ pace_log[2].wait = -1
    /\ pace_log[3].wait = -1
    /\ pc = "save_write"


\* number of fetches of batch entry b of dispatch_log
BatchLen(b) == dispatch_log[b].last - dispatch_log[b].first + 1

\* weight of the fetches of batch entry b
BatchWeight(b) == BatchLen(b) * weight_per_req

\* total weight of the batches b..Len(dispatch_log) dispatched at an instant
\* in [from, from + 60 s)
RECURSIVE WindowWeight(_, _)
WindowWeight(b, from) ==
    IF b > Len(dispatch_log) THEN 0
    ELSE (IF dispatch_log[b].at >= from /\ dispatch_log[b].at < from + 60000
          THEN BatchWeight(b) ELSE 0) + WindowWeight(b + 1, from)

\* the budget holds for every batch dispatched so far: no batch weighs more
\* than 0.90 x ceiling, and the fetches dispatched in the 60 s from the
\* dispatch of any batch weigh no more than the ceiling
BudgetKept ==
    \A b \in 1..Len(dispatch_log) :
       /\ 10 * BatchWeight(b) <= 9 * api_limit_total
       /\ WindowWeight(1, dispatch_log[b].at) <= api_limit_total

\* C8 (as claimed): for every ceiling and candle limit the weight dispatched
\* within any 60-second window stays within the ceiling and the weight of
\* any single batch within 0.90 x ceiling.
C8_WeightUnderCeiling == BudgetKept

\* C8 (amended): the same, for every ceiling and candle limit such that the
\* weight of one call does not exceed the safe capacity 0.90 x ceiling.
C8_WeightUnderCeilingWhenOneCallFits ==
    10 * weight_per_req <= 9 * api_limit_total => BudgetKept

\* C8 witness: ceiling 12 and weight 5; a full batch of two fetches used the
\* whole safe capacity 10 and the next batch was dispatched
C8_Witness ==
    /\ api_limit_total = 12
    /\ weight_per_req = 5
    /\ Len(dispatch_log) = 2
    /\ BatchWeight(1) = 10

\* the instruments of batch entries b..Len(dispatch_log), concatenated
RECURSIVE ConcatBatches(_)
ConcatBatches(b) ==
    IF b > Len(dispatch_log) THEN <<>>
    ELSE SubSeq(symbols_to_fetch, dispatch_log[b].first, dispatch_log[b].last)
         \o ConcatBatches(b + 1)

\* C9: the batches are a consecutive chunking of the filtered list.  Each
\* batch starts right after the previous one, every batch but the latest has
\* exactly batch_size instruments and the latest between 1 and batch_size,
\* every dispatched instrument is in exactly one batch, and once the loop is
\* over the batches concatenated in dispatch order are the filtered list.
C9_ConsecutiveChunks ==
    /\ \A b \in 1..Len(dispatch_log) :
          /\ dispatch_log[b].first =
                (IF b = 1 THEN 1 ELSE dispatch_log[b - 1].last + 1)
          /\ dispatch_log[b].last <= NumSymbols
          /\ BatchLen(b) >= 1
          /\ BatchLen(b) <= batch_size
          /\ b < Len(dispatch_log) => BatchLen(b) = batch_size
          /\ \A k \in dispatch_log[b].first..dispatch_log[b].last :
                tasks[k].batch = dispatch_log[b].batch
    /\ \A k \in DOMAIN tasks :
          Cardinality({b \in 1..Len(dispatch_log) :
                          dispatch_log[b].first <= k /\ k <= dispatch_log[b].last})
             = (IF tasks[k].pc = "idle" THEN 0 ELSE 1)
    /\ pc \in {"save_write", "save_rename", "done"} =>
          ConcatBatches(1) = symbols_to_fetch

\* C9 witness: three instruments in chunks of two; the loop is over after a
\* full batch and a final batch of one
C9_Witness ==
    /\ pc = "save_write"
    /\ batch_size = 2
    /\ NumSymbols = 3
    /\ Len(dispatch_log) = 2
    /\ BatchLen(1) = 2
    /\ BatchLen(2) = 1

\* the ceilings the metadata admits: the limit of the first descriptor with
\* type REQUEST_WEIGHT and interval MINUTE, or 2400 when there is none
Ceilings(rls) ==
    {rls[j].limit : j \in {i \in 1..Len(rls) :
         /\ rls[i].limit_type = "REQUEST_WEIGHT"
         /\ rls[i].interval = "MINUTE"
         /\ \A m \in 1..(i - 1) :
               ~(rls[m].limit_type = "REQUEST_WEIGHT" /\ rls[m].interval = "MINUTE")}}
    \cup (IF \E i \in 1..Len(rls) :
               rls[i].limit_type = "REQUEST_WEIGHT" /\ rls[i].interval = "MINUTE"
          THEN {} ELSE {2400})

\* C10: once computed, the batch size is max(1, floor(0.90 x ceiling /
\* weight-per-call)), hence at least 1, with the ceiling taken from the
\* REQUEST_WEIGHT/MINUTE descriptor or 2400 without one; ceiling 2400 and
\* weight 5 give 432.
C10_BatchSize ==
    pc \in {"build_client", "loop", "join", "pacing", "save_write",
            "save_rename", "done"} =>
       /\ Ceilings(files.exchange_info.rate_limits) = {api_limit_total}
       /\ batch_size = Max(1, (9 * api_limit_total) \div (10 * weight_per_req))
       /\ batch_size >= 1
       /\ (api_limit_total = 2400 /\ weight_per_req = 5) => batch_size = 432

\* C10 witness: no REQUEST_WEIGHT/MINUTE descriptor and a limit of 500
\* candles: ceiling 2400, weight 5, batch size 432
C10_Witness ==
    /\ pc = "loop"
    /\ files.exchange_info.rate_limits = <<>>
    /\ limit_val = 500
    /\ batch_size = 432


(***************************************************************************)
(* calculate_request_weight on its own                                     *)
(***************************************************************************)
InitWeight ==
    /\ WeightRestIdle
    /\ cw_limit \in 0..MaxLimit
    /\ cw_weight = -1

\* let weight_per_req = calculate_request_weight(limit_val)
CalcWeight ==
    /\ cw_weight = -1
    /\ cw_weight' = calculate_request_weight(cw_limit)
    /\ UNCHANGED <<cw_limit, weight_rest>>

NextWeight == CalcWeight

SpecWeight == InitWeight /\ [][NextWeight]_vars

\* C11: the weight of a call is 1 for a limit up to 99, 2 for 100..499, 5 for
\* 500..1000 and 10 above 1000 (50, 250, 750 and 1500 give 1, 2, 5 and 10).
C11_WeightTiers ==
    cw_weight # -1 =>
       /\ cw_limit <= 99 => cw_weight = 1
       /\ (cw_limit >= 100 /\ cw_limit <= 499) => cw_weight = 2
       /\ (cw_limit >= 500 /\ cw_limit <= 1000) => cw_weight = 5
       /\ cw_limit > 1000 => cw_weight = 10
       /\ cw_limit = 50 => cw_weight = 1
       /\ cw_limit = 250 => cw_weight = 2
       /\ cw_limit = 750 => cw_weight = 5
       /\ cw_limit = 1500 => cw_weight = 10

\* C11 witness: the upper bound of the third tier was weighed
C11_Witness == cw_limit = 1000 /\ cw_weight = 5


(***************************************************************************)
(* AsyncStorageManager::save and ::load of one key (storage_utils.rs)      *)
(*                                                                         *)
(* A record is written in RecLen steps; a content [rec, len] holds the     *)
(* first len steps of record rec and parses only when len = RecLen.        *)
(***************************************************************************)
\* variant: the bytes are written to the final path itself
WritePathDirect == "final"

\* the path given to tokio::fs::write: tmp_path
WritePath == "tmp"

\* serde_json::from_slice succeeds on a content
Parses(c) == c.rec # 0 /\ c.len = RecLen

InitStore ==
    /\ StoreRestIdle
    /\ StoreIdle

\* save is called with a new record; serde_json::to_vec_pretty(data)?
SaveCall ==
    /\ sv_pc = "idle"
    /\ st_saves < MaxSaves
    /\ st_saves' = st_saves + 1
    /\ sv_data' = st_saves + 1
    /\ sv_pc' = "create"
    /\ sv_result' = "none"
    /\ UNCHANGED <<st_disk, ld_pc, ld_buf, ld_result, st_done, st_prev,
                   st_crashes, store_rest>>

\* tokio::fs::write: the file is created or truncated
TmpCreate ==
    /\ sv_pc = "create"
    /\ \/ /\ st_disk' = [st_disk EXCEPT ![WritePath] = [rec |-> sv_data, len |-> 0]]
          /\ sv_pc' = "write"
          /\ UNCHANGED <<sv_data, sv_result>>
       \/ /\ sv_pc' = "idle"
          /\ sv_result' = "err"
          /\ sv_data' = 0
          /\ UNCHANGED st_disk
    /\ UNCHANGED <<ld_pc, ld_buf, ld_result, st_done, st_prev, st_saves,
                   st_crashes, store_rest>>

\* tokio::fs::write: a part of the bytes is written, or the write fails
TmpWrite ==
    /\ sv_pc = "write"
    /\ \/ /\ st_disk' = [st_disk EXCEPT ![WritePath].len = @ + 1]
          /\ sv_pc' = IF st_disk[WritePath].len + 1 = RecLen THEN "rename" ELSE "write"
          /\ UNCHANGED <<sv_data, sv_result>>
       \/ /\ sv_pc' = "idle"
          /\ sv_result' = "err"
          /\ sv_data' = 0
          /\ UNCHANGED st_disk
    /\ UNCHANGED <<ld_pc, ld_buf, ld_result, st_done, st_prev, st_saves,
                   st_crashes, store_rest>>

\* tokio::fs::rename(tmp_path, final_path).await?; Ok(())
Rename ==
    /\ sv_pc = "rename"
    /\ \/ /\ st_disk' = [final |-> st_disk.tmp, tmp |-> NoContent]
          /\ st_prev' = st_done
          /\ st_done' = st_disk.tmp.rec
          /\ sv_result' = "ok"
       \/ /\ sv_result' = "err"
          /\ UNCHANGED <<st_disk, st_prev, st_done>>
    /\ sv_pc' = "idle"
    /\ sv_data' = 0
    /\ UNCHANGED <<ld_pc, ld_buf, ld_result, st_saves, st_crashes, store_rest>>

\* the process dies and is started again; the files stay as they are
Crash ==
    /\ st_crashes < MaxCrashes
    /\ sv_pc # "idle" \/ ld_pc # "idle"
    /\ st_crashes' = st_crashes + 1
    /\ sv_pc' = "idle"
    /\ sv_data' = 0
    /\ sv_result' = "none"
    /\ ld_pc' = "idle"
    /\ ld_buf' = NoContent
    /\ UNCHANGED <<st_disk, ld_result, st_done, st_prev, st_saves, store_rest>>

\* load: fs::read(path).await?
LoadRead ==
    /\ ld_pc = "idle"
    /\ IF st_disk.final.rec = 0
       THEN /\ ld_result' = [kind |-> "not_found", rec |-> 0]
            /\ UNCHANGED <<ld_pc, ld_buf>>
       ELSE /\ ld_buf' = st_disk.final
            /\ ld_pc' = "parse"
            /\ ld_result' = [kind |-> "none", rec |-> 0]
    /\ UNCHANGED <<st_disk, sv_pc, sv_data, sv_result, st_done, st_prev,
                   st_saves, st_crashes, store_rest>>

\* load: serde_json::from_slice(&content)?; Ok(data)
LoadParse ==
    /\ ld_pc = "parse"
    /\ ld_result' = IF Parses(ld_buf)
                    THEN [kind |-> "ok", rec |-> ld_buf.rec]
                    ELSE [kind |-> "parse_error", rec |-> ld_buf.rec]
    /\ ld_pc' = "idle"
    /\ ld_buf' = NoContent
    /\ UNCHANGED <<st_disk, sv_pc, sv_data, sv_result, st_done, st_prev,
                   st_saves, st_crashes, store_rest>>

NextStore ==
    \/ SaveCall
    \/ TmpCreate
    \/ TmpWrite
    \/ Rename
    \/ Crash
    \/ LoadRead
    \/ LoadParse

SpecStore == InitStore /\ [][NextStore]_vars

\* C12: save is atomic with respect to load and crashes.  At every point of
\* a save the final path holds no file or the complete record of the last
\* completed save; a load reads that complete record, whether the save that
\* runs beside it has replaced the file yet or not, and returns it complete,
\* or returns not-found when no save has completed; no load returns a partial
\* record, and a crash leaves the final path as it is.
C12_SaveAtomic ==
    /\ [](/\ st_disk.final.rec # 0 => Parses(st_disk.final)
          /\ st_disk.final.rec = st_done
          /\ ld_pc = "parse" => Parses(ld_buf) /\ ld_buf.rec \in 1..st_done
          /\ ld_result.kind # "parse_error")
    /\ [][/\ ld_pc = "idle" /\ ld_pc' = "parse" =>
                ld_buf'.rec = st_done /\ st_done # 0
          /\ ld_pc = "parse" /\ ld_pc' = "idle" /\ st_crashes' = st_crashes =>
                ld_result' = [kind |-> "ok", rec |-> ld_buf.rec]
          /\ ld_result' # ld_result /\ ld_result'.kind = "not_found" =>
                st_done = 0
          /\ st_crashes' # st_crashes => st_disk'.final = st_disk.final]_vars

\* C12 witness: a load returned the complete first record although a crash
\* had interrupted the second save between its write and its rename
C12_Witness ==
    /\ st_crashes >= 1
    /\ st_saves = 2
    /\ st_done = 1
    /\ st_disk.tmp = [rec |-> 2, len |-> RecLen]
    /\ sv_pc = "idle"
    /\ ld_result = [kind |-> "ok", rec |-> 1]


(***************************************************************************)
(* analyze_klines_data on its own (cumulative_price_change.rs)             *)
(*                                                                         *)
(* close times are counted in seconds                                      *)
(***************************************************************************)
CloseTimes == {1700000000, 1700000060}

\* a candle with open, close and closeTime present
Candle(c, t) == InputKline(SomeF64(F64(100)), SomeF64(c), SomeI64(t))

\* candles lacking one of the three fields
MissingOpen == InputKline(NoneF64, SomeF64(F64(110)), SomeI64(1700000060))
MissingClose == InputKline(SomeF64(F64(100)), NoneF64, SomeI64(1700000060))
MissingTime == InputKline(SomeF64(F64(100)), SomeF64(F64(110)), NoneI64)

Candles ==
    {Candle(c, t) : c \in {F64(0), F64(100), F64(110), NaN}, t \in CloseTimes}
    \cup {MissingOpen, MissingClose, MissingTime}

CandleSeqs == UNION {[1..n -> Candles] : n \in 0..MaxCandles}

InitReduce ==
    /\ ReduceRestIdle
    /\ rd_klines \in CandleSeqs
    /\ rd_out = NotReturned

\* analyze_klines_data(&symbol_data.klines)
Analyze ==
    /\ rd_out = NotReturned
    /\ rd_out' = analyze_klines_data(rd_klines)
    /\ UNCHANGED <<rd_klines, reduce_rest>>

NextReduce == Analyze

SpecReduce == InitReduce /\ [][NextReduce]_vars

\* the indices of the candles with open, close and closeTime all present
ValidAt(klines) ==
    {i \in DOMAIN klines :
        klines[i].open.some /\ klines[i].close.some /\ klines[i].close_time.some}

LowestOf(S) == CHOOSE i \in S : \A j \in S : i <= j
HighestOf(S) == CHOOSE i \in S : \A j \in S : i >= j

Raw(t, n) == [t |-> t, n |-> n]

RawKline(o, c, t) == [open |-> o, close |-> c, closeTime |-> t]

\* number of instruments the candle source has candles for
NumSeries == 9

\* refresh tasks spawned in one session of the display loop
MaxRefreshes == 3

\* tui.rs:97  mpsc::channel::<Result<OutputData>>(1)
ChannelCapacity == 1

\* the candles the candle source returns for a symbol: closing prices as
\* strings, close times as numbers; the candle in the middle is at no end
GoodSeries(first, last, t) ==
    << RawKline(Raw("numeric", 100), Raw("numeric", first), Raw("number", 1700000000)),
       RawKline(Raw("numeric", 100), Raw("numeric", 50), Raw("number", 1700000060)),
       RawKline(Raw("numeric", 100), last, Raw("number", t)) >>

BaseKlinesOf(sym) ==
    CASE sym = 1 -> GoodSeries(100, Raw("numeric", 110), 1700000120)
      [] sym = 2 -> GoodSeries(100, Raw("numeric", 105), 1700000180)
      [] sym = 3 -> GoodSeries(200, Raw("numeric", 210), 1700000240)
      [] sym = 4 -> GoodSeries(100, Raw("numeric", 97), 1700000120)
      [] sym = 5 -> GoodSeries(100, Raw("number", 112), 1700000180)
      [] sym = 6 -> GoodSeries(100, Raw("nan", 0), 1700000240)
      [] sym = 7 -> GoodSeries(0, Raw("numeric", 110), 1700000300)
      [] sym = 8 -> << RawKline(Raw("blank", 0), Raw("numeric", 100), Raw("number", 1700000000)),
                       RawKline(Raw("numeric", 100), Raw("null", 0), Raw("number", 1700000060)),
                       RawKline(Raw("numeric", 100), Raw("numeric", 110), Raw("absent", 0)) >>
      [] OTHER -> << >>

\* the symbols whose first and last candle are valid
EndsValid == 1..7

\* the candles of a symbol in the capture
RawKlinesOf(sym, mal) ==
    IF mal.sym = sym
    THEN [BaseKlinesOf(sym) EXCEPT ![2][mal.field] = Raw(mal.how, 0)]
    ELSE BaseKlinesOf(sym)

\* deserialize_f64_lenient: ok is FALSE for Err
deserialize_f64_lenient(raw) ==
    CASE raw.t = "number" -> [ok |-> TRUE, val |-> SomeF64(F64(raw.n))]
      [] raw.t = "numeric" -> [ok |-> TRUE, val |-> SomeF64(F64(raw.n))]
      [] raw.t = "nan" -> [ok |-> TRUE, val |-> SomeF64(NaN)]
      [] raw.t = "blank" -> [ok |-> TRUE, val |-> NoneF64]
      [] raw.t = "null" -> [ok |-> TRUE, val |-> NoneF64]
      [] OTHER -> [ok |-> FALSE, val |-> NoneF64]

\* the derived deserialization of close_time: Option<i64>
deserialize_close_time(raw) ==
    CASE raw.t = "number" -> [ok |-> TRUE, val |-> SomeI64(raw.n)]
      [] raw.t = "null" -> [ok |-> TRUE, val |-> NoneI64]
      [] raw.t = "absent" -> [ok |-> TRUE, val |-> NoneI64]
      [] OTHER -> [ok |-> FALSE, val |-> NoneI64]

\* the derived deserialization of InputKline succeeds
KlineOk(rk) ==
    /\ deserialize_f64_lenient(rk.open).ok
    /\ deserialize_f64_lenient(rk.close).ok
    /\ deserialize_close_time(rk.closeTime).ok

KlineOf(rk) ==
    InputKline(deserialize_f64_lenient(rk.open).val,
               deserialize_f64_lenient(rk.close).val,
               deserialize_close_time(rk.closeTime).val)

\* SymbolData
SymbolDataOf(sym, mal) ==
    [symbol |-> sym,
     klines |-> [i \in DOMAIN RawKlinesOf(sym, mal) |-> KlineOf(RawKlinesOf(sym, mal)[i])]]

\* storage.load("klines") returns Ok
LoadOk(file, mal) ==
    /\ file.kind = "json"
    /\ \A p \in DOMAIN file.data :
          \A i \in DOMAIN RawKlinesOf(file.data[p], mal) :
              KlineOk(RawKlinesOf(file.data[p], mal)[i])

\* the Vec<SymbolData> storage.load("klines") returns
LoadData(file, mal) == [p \in DOMAIN file.data |-> SymbolDataOf(file.data[p], mal)]

ResultItem(sym, m) == [symbol |-> sym, movement_pct |-> m]

\* the closure given to sort_unstable_by
compare(a, b) ==
    LET o == partial_cmp(b.movement_pct, a.movement_pct)
    IN  IF o = "none" THEN "equal" ELSE o

\* the sequences that hold the elements of v in another order
PermutationsOf(v) ==
    { [i \in DOMAIN v |-> v[f[i]]] :
        f \in {g \in [DOMAIN v -> DOMAIN v] : \A i, j \in DOMAIN v : i # j => g[i] # g[j]} }

\* the closure is a total order on the elements of v
TotalOrder(v) ==
    \A i, j, k \in DOMAIN v :
        compare(v[i], v[j]) # "greater" /\ compare(v[j], v[k]) # "greater"
            => /\ compare(v[i], v[k]) # "greater"
               /\ compare(v[i], v[k]) = "equal"
                    => compare(v[i], v[j]) = "equal" /\ compare(v[j], v[k]) = "equal"

\* what results.sort_unstable_by(compare) can leave in results: equal
\* elements in any order, and every order when the closure is no total order
sort_unstable_by(v) ==
    IF TotalOrder(v)
    THEN {w \in PermutationsOf(v) :
            \A i, j \in DOMAIN w : i < j => compare(w[i], w[j]) # "greater"}
    ELSE PermutationsOf(v)

OutputData(ts, results) ==
    [kind |-> "json", last_updated_timestamp |-> ts, results |-> results]

\* the snapshot an earlier run has published
PriorSnapshot == OutputData(1600000000, <<ResultItem(1, F64(1))>>)

\* results.json and results.json.tmp before the run: no snapshot yet, or the
\* snapshot of an earlier run
PriorOut ==
    {[results |-> NoFile, results_tmp |-> NoFile],
     [results |-> PriorSnapshot, results_tmp |-> NoFile]}

\* the captures analysed: no file, an unreadable file, or a capture of up to
\* MaxInstruments instruments
Captures ==
    {NoFile, Garbage} \cup
    { [kind |-> "json", data |-> d] :
        d \in {e \in UNION {[1..n -> 1..NumSeries] : n \in 0..MaxInstruments} :
                 \A i, j \in DOMAIN e : i # j => e[i] # e[j]} }

\* the ways one candle in the middle of an instrument of the capture is malformed
Malformations(file) ==
    {NoMal} \cup
    (IF file.kind = "json"
     THEN { [sym |-> file.data[p], field |-> f, how |-> h] :
              p \in {q \in DOMAIN file.data : file.data[q] \in EndsValid},
              f \in {"open", "close"},
              h \in {"absent", "blank", "bad"} }
     ELSE {})

InitAnalyze ==
    /\ AnalyzeRestIdle
    /\ \E c \in Captures :
          /\ files = [config |-> NoFile, exchange_info |-> NoFile,
                      klines |-> c, klines_tmp |-> NoFile]
          /\ an_mal \in Malformations(c)
    /\ an_pc = "new_storage"
    /\ an_result = "running"
    /\ an_data = <<>>
    /\ an_i = 0
    /\ an_results = <<>>
    /\ an_max_close_time = 0
    /\ an_out \in PriorOut
    /\ an_collected = <<>>
    /\ an_saves = 0

\* the run returns
AnReturn(r) ==
    /\ an_pc' = "done"
    /\ an_result' = r

\* AsyncStorageManager::new_relative("storage").await?
AnNewStorage ==
    /\ an_pc = "new_storage"
    /\ \/ an_pc' = "load" /\ UNCHANGED an_result
       \/ AnReturn("err")
    /\ UNCHANGED <<an_mal, an_data, an_i, an_results, an_max_close_time, an_out,
                   an_collected, an_saves, analyze_rest>>

\* match storage.load("klines").await { Ok(data) => data, Err(_) => return Ok(()) }
AnLoad ==
    /\ an_pc = "load"
    /\ IF LoadOk(files.klines, an_mal)
       THEN /\ an_data' = LoadData(files.klines, an_mal)
            /\ an_i' = 1
            /\ an_pc' = "loop"
            /\ UNCHANGED an_result
       ELSE /\ AnReturn("ok")
            /\ UNCHANGED <<an_data, an_i>>
    /\ UNCHANGED <<an_mal, an_results, an_max_close_time, an_out, an_collected,
                   an_saves, analyze_rest>>

\* variant: max_close_time takes the close time of the latest result
AnLoopStepLastTime ==
    /\ an_pc = "loop"
    /\ an_i <= Len(an_data)
    /\ LET r == analyze_klines_data(an_data[an_i].klines)
       IN  IF r.some
           THEN /\ an_results' = Append(an_results,
                                        ResultItem(an_data[an_i].symbol, r.movement))
                /\ an_max_close_time' = r.time
           ELSE UNCHANGED <<an_results, an_max_close_time>>
    /\ an_i' = an_i + 1
    /\ UNCHANGED <<an_pc, an_result, an_mal, an_data, an_out, an_collected,
                   an_saves, analyze_rest>>

\* one turn of `for symbol_data in all_symbols_data`
AnLoopStep ==
    /\ an_pc = "loop"
    /\ an_i <= Len(an_data)
    /\ LET r == analyze_klines_data(an_data[an_i].klines)
       IN  IF r.some
           THEN /\ an_results' = Append(an_results,
                                        ResultItem(an_data[an_i].symbol, r.movement))
                /\ an_max_close_time' = IF r.time > an_max_close_time
                                        THEN r.time ELSE an_max_close_time
           ELSE UNCHANGED <<an_results, an_max_close_time>>
    /\ an_i' = an_i + 1
    /\ UNCHANGED <<an_pc, an_result, an_mal, an_data, an_out, an_collected,
                   an_saves, analyze_rest>>

\* variant: an empty result list is saved like any other
AnSortNoEmptyCheck ==
    /\ an_pc = "loop"
    /\ an_i > Len(an_data)
    /\ an_collected' = an_results
    /\ an_results' \in sort_unstable_by(an_results)
    /\ an_pc' = "save_write"
    /\ UNCHANGED an_result
    /\ UNCHANGED <<an_mal, an_data, an_i, an_max_close_time, an_out, an_saves,
                   analyze_rest>>

\* results.sort_unstable_by(..); if results.is_empty() { return Ok(()) }
AnSort ==
    /\ an_pc = "loop"
    /\ an_i > Len(an_data)
    /\ an_collected' = an_results
    /\ an_results' \in sort_unstable_by(an_results)
    /\ IF an_results = <<>>
       THEN AnReturn("ok")
       ELSE an_pc' = "save_write" /\ UNCHANGED an_result
    /\ UNCHANGED <<an_mal, an_data, an_i, an_max_close_time, an_out, an_saves,
                   analyze_rest>>

\* the JSON value null
JsonNull == [k |-> "null", n |-> 0, d |-> 1]

\* serde_json's serialize_f64: a finite number is printed, NaN and the
\* infinities are written as null
serialize_f64(x) == IF x.k = "num" THEN x ELSE JsonNull

\* serde_json::to_vec_pretty(data) of an OutputData
to_vec_pretty(data) ==
    [kind |-> "json",
     last_updated_timestamp |-> data.last_updated_timestamp,
     results |-> [i \in DOMAIN data.results |->
                    [symbol |-> data.results[i].symbol,
                     movement_pct |-> serialize_f64(data.results[i].movement_pct)]]]

\* variant: the snapshot is written to results.json itself
AnSaveWriteDirect ==
    /\ an_pc = "save_write"
    /\ an_saves' = an_saves + 1
    /\ \/ /\ an_out' = [an_out EXCEPT !.results =
                to_vec_pretty(OutputData(an_max_close_time, an_results))]
          /\ AnReturn("ok")
       \/ /\ an_out' = [an_out EXCEPT !.results = Garbage]
          /\ AnReturn("err")
    /\ UNCHANGED <<an_mal, an_data, an_i, an_results, an_max_close_time,
                   an_collected, analyze_rest>>

\* storage.save("results", &output_data): tokio::fs::write(&tmp_path, ..).await?
AnSaveWrite ==
    /\ an_pc = "save_write"
    /\ an_saves' = an_saves + 1
    /\ \/ /\ an_out' = [an_out EXCEPT !.results_tmp =
                to_vec_pretty(OutputData(an_max_close_time, an_results))]
          /\ an_pc' = "save_rename"
          /\ UNCHANGED an_result
       \/ /\ an_out' = [an_out EXCEPT !.results_tmp = Garbage]
          /\ AnReturn("err")
    /\ UNCHANGED <<an_mal, an_data, an_i, an_results, an_max_close_time,
                   an_collected, analyze_rest>>

\* storage.save("results", ..): tokio::fs::rename(tmp_path, final_path).await?
AnSaveRename ==
    /\ an_pc = "save_rename"
    /\ \/ /\ an_out' = [results |-> an_out.results_tmp, results_tmp |-> NoFile]
          /\ AnReturn("ok")
       \/ /\ AnReturn("err")
          /\ UNCHANGED an_out
    /\ UNCHANGED <<an_mal, an_data, an_i, an_results, an_max_close_time,
                   an_collected, an_saves, analyze_rest>>

NextAnalyze ==
    \/ AnNewStorage
    \/ AnLoad
    \/ AnLoopStep
    \/ AnSort
    \/ AnSaveWrite
    \/ AnSaveRename

SpecAnalyze == InitAnalyze /\ [][NextAnalyze]_vars


\* the loop over all_symbols_data has ended
LoopDone == an_pc \in {"save_write", "save_rename", "done"} /\ an_i = Len(an_data) + 1

\* the reducer has nothing to return for a candle sequence: no valid candle,
\* or a first-valid close of 0
Excluded(klines) ==
    \/ ValidAt(klines) = {}
    \/ LET c == klines[LowestOf(ValidAt(klines))].close.v
       IN  c.k = "num" /\ c.n = 0

SymbolsOf(results) == {results[i].symbol : i \in DOMAIN results}

\* C17: once the loop has ended, an instrument of the capture has a movement
\* result exactly when it has a valid candle and its first-valid close is not
\* 0: an instrument with no candles, with no valid candle or with a
\* first-valid close of 0 is absent, and every other instrument is present.
C17_ResultOnlyIfEndpoints ==
    LoopDone =>
        /\ \A p \in DOMAIN an_data :
              an_data[p].symbol \in SymbolsOf(an_collected)
                  <=> ~Excluded(an_data[p].klines)
        /\ SymbolsOf(an_collected) \subseteq {an_data[p].symbol : p \in DOMAIN an_data}

\* C17 witness: of three instruments, one with a first close of 0 and one
\* without candles, only the third is in the published results
C17_Witness ==
    /\ files.klines = [kind |-> "json", data |-> <<7, 1, 9>>]
    /\ an_mal = NoMal
    /\ an_pc = "done"
    /\ an_result = "ok"
    /\ an_out.results = OutputData(1700000120, <<ResultItem(1, F64(10))>>)

\* the movement results of the capture when none of its candles is malformed
BaseItems(file) ==
    { ResultItem(file.data[p],
                 analyze_klines_data(SymbolDataOf(file.data[p], NoMal).klines).movement) :
        p \in {q \in DOMAIN file.data :
                 analyze_klines_data(SymbolDataOf(file.data[q], NoMal).klines).some} }

ItemsOf(results) == {results[i] : i \in DOMAIN results}

\* C18: a malformed candle that is not the first-valid or last-valid candle
\* of its instrument (open or close absent, blank or no number) changes no
\* movement result and does not keep the snapshot from being produced: the
\* run publishes the results the capture has without the malformation.
C18_MalformedTolerated ==
    an_pc = "done" /\ an_result = "ok" /\ an_mal # NoMal /\ BaseItems(files.klines) # {} =>
        /\ an_saves = 1
        /\ an_out.results.kind = "json"
        /\ ItemsOf(an_out.results.results) = BaseItems(files.klines)

\* the movements of results
MovementsOf(results) == [i \in DOMAIN results |-> results[i].movement_pct]

\* results has been sorted
Sorted == an_pc \in {"save_write", "save_rename"} \/ LoopDone

\* C19: the ranked list is a permutation of the collected results in which
\* every adjacent pair of comparable movements is in descending order;
\* movements 5, -3, 12 are ranked 12, 5, -3.
C19_RankedDescending ==
    Sorted =>
        /\ an_results \in PermutationsOf(an_collected)
        /\ \A i \in 1..(Len(an_results) - 1) :
              partial_cmp(an_results[i].movement_pct,
                          an_results[i + 1].movement_pct) \in {"greater", "equal", "none"}
        /\ MovementsOf(an_collected) = <<F64(5), F64(-3), F64(12)>>
              => MovementsOf(an_results) = <<F64(12), F64(5), F64(-3)>>

\* the place of a symbol in results
PlaceOf(results, sym) == CHOOSE i \in DOMAIN results : results[i].symbol = sym

\* C20: two results whose movements are equal or not comparable are ranked
\* in the order they were collected in.
C20_RankingStable ==
    Sorted /\ an_results \in PermutationsOf(an_collected) =>
        \A i, j \in DOMAIN an_collected :
            /\ i < j
            /\ partial_cmp(an_collected[i].movement_pct,
                           an_collected[j].movement_pct) \in {"equal", "none"}
            => PlaceOf(an_results, an_collected[i].symbol)
                 < PlaceOf(an_results, an_collected[j].symbol)


(***************************************************************************)
(* analysis::run_analysis_pipeline: the configuration is loaded, the       *)
(* exchange metadata is fetched, klines::run downloads the candles and     *)
(* cumulative_price_change::run analyses them                              *)
(***************************************************************************)
\* the documents the metadata source returns
ExchangeDocs ==
    {Garbage} \cup
    { [kind |-> "json",
       rate_limits |-> << RL("REQUEST_WEIGHT", "SECOND", 9),
                          RL("REQUEST_WEIGHT", "MINUTE", 12) >>,
       symbols |-> SymbolList(n)] : n \in {0, 3} }

InitPipeline ==
    /\ PipeRestIdle
    /\ SchedStopped
    /\ files \in { [config |-> c, exchange_info |-> NoFile,
                    klines |-> NoFile, klines_tmp |-> NoFile] :
                     c \in {NoFile, Garbage, [kind |-> "json", limit |-> 1001]} }
    /\ an_pc = "not_started"
    /\ an_result = "running"
    /\ an_mal = NoMal
    /\ an_data = <<>>
    /\ an_i = 0
    /\ an_results = <<>>
    /\ an_max_close_time = 0
    /\ an_out \in PriorOut
    /\ an_collected = <<>>
    /\ an_saves = 0
    /\ pp_pc = "new_storage"
    /\ pp_result = "running"
    /\ pp_err_at = "none"
    /\ pp_info_saves = 0

\* `?` on an Err: the pipeline returns the error
PipeFail(step) ==
    /\ pp_pc' = "done"
    /\ pp_result' = "err"
    /\ pp_err_at' = step

\* AsyncStorageManager::new_relative("storage").await?
PipeNewStorage ==
    /\ pp_pc = "new_storage"
    /\ \/ pp_pc' = "load_config" /\ UNCHANGED <<pp_result, pp_err_at>>
       \/ PipeFail("new_storage")
    /\ UNCHANGED <<pp_info_saves, sched_vars, analyze_vars, pipe_rest>>

\* let app_config: AppConfig = storage.load("config").await?
PipeLoadConfig ==
    /\ pp_pc = "load_config"
    /\ IF files.config.kind = "json"
       THEN pp_pc' = "fetch_info" /\ UNCHANGED <<pp_result, pp_err_at>>
       ELSE PipeFail("load_config")
    /\ UNCHANGED <<pp_info_saves, sched_vars, analyze_vars, pipe_rest>>

\* find_tickers::fetch_exchange_info(..).await?: the metadata document is
\* requested and saved as exchange_info; a failed request or save is an Err
FetchExchangeInfo ==
    /\ pp_pc = "fetch_info"
    /\ \/ /\ PipeFail("fetch_exchange_info")
          /\ UNCHANGED <<files, pp_info_saves>>
       \/ /\ pp_info_saves' = pp_info_saves + 1
          /\ \/ /\ \E doc \in ExchangeDocs :
                      files' = [files EXCEPT !.exchange_info = doc]
                /\ pp_pc' = "call_klines"
                /\ UNCHANGED <<pp_result, pp_err_at>>
             \/ /\ PipeFail("fetch_exchange_info")
                /\ UNCHANGED files
    /\ UNCHANGED <<pc, run_result, err_at, setup_vars, chunk_i, start_time,
                   tasks, all_results, sleep_until, clock, hist_vars,
                   analyze_vars, pipe_rest>>

\* klines::run(..) is called
PipeCallKlines ==
    /\ pp_pc = "call_klines"
    /\ pp_pc' = "klines"
    /\ pc' = "new_storage"
    /\ UNCHANGED <<pp_result, pp_err_at, pp_info_saves, files, run_result,
                   err_at, setup_vars, chunk_i, start_time, tasks, all_results,
                   sleep_until, clock, hist_vars, analyze_vars, pipe_rest>>

\* klines::run(..).await? returns, and cumulative_price_change::run(..) is
\* called; a candle in the middle of an instrument of the capture may be
\* malformed
PipeKlinesReturn ==
    /\ pp_pc = "klines"
    /\ run_result # "running"
    /\ IF run_result = "ok"
       THEN /\ pp_pc' = "analysis"
            /\ an_pc' = "new_storage"
            /\ an_mal' \in Malformations(files.klines)
            /\ UNCHANGED <<pp_result, pp_err_at>>
       ELSE /\ PipeFail("klines")
            /\ UNCHANGED <<an_pc, an_mal>>
    /\ UNCHANGED <<pp_info_saves, sched_vars, an_result, an_data, an_i,
                   an_results, an_max_close_time, an_out, an_collected,
                   an_saves, pipe_rest>>

\* cumulative_price_change::run(..).await? returns; Ok(())
PipeAnalysisReturn ==
    /\ pp_pc = "analysis"
    /\ an_result # "running"
    /\ IF an_result = "ok"
       THEN /\ pp_pc' = "done"
            /\ pp_result' = "ok"
            /\ UNCHANGED pp_err_at
       ELSE PipeFail("analysis")
    /\ UNCHANGED <<pp_info_saves, sched_vars, analyze_vars, pipe_rest>>

NextPipeline ==
    \/ PipeNewStorage
    \/ PipeLoadConfig
    \/ FetchExchangeInfo
    \/ PipeCallKlines
    \/ NewStorage
    \/ LoadConfig
    \/ LoadExchangeInfo
    \/ BuildClient
    \/ Dispatch
    \/ LoopExit
    \/ \E k \in DOMAIN tasks : SendDone(k)
    \/ \E k \in DOMAIN tasks : TextDone(k)
    \/ \E k \in DOMAIN tasks : JsonDone(k)
    \/ \E k \in DOMAIN tasks : BanWake(k)
    \/ Join
    \/ PacingWake
    \/ SaveWrite
    \/ SaveRename
    \/ Tick
    \/ PipeKlinesReturn
    \/ AnNewStorage
    \/ AnLoad
    \/ AnLoopStep
    \/ AnSort
    \/ AnSaveWrite
    \/ AnSaveRename
    \/ PipeAnalysisReturn

SpecPipeline == InitPipeline /\ [][NextPipeline]_vars


\* number of calls of storage.save("klines", ..) made by klines::run
KlinesSaveCalls ==
    IF pc \in {"save_rename", "done"} \/ (pc = "failed" /\ err_at = "save")
    THEN 1 ELSE 0

\* number of calls of save made in the run
SaveCalls == pp_info_saves + KlinesSaveCalls + an_saves

\* the run has published its snapshot
Published ==
    /\ an_saves = 1
    /\ an_pc = "done"
    /\ an_result = "ok"
    /\ an_out.results = to_vec_pretty(OutputData(an_max_close_time, an_results))

\* results.json is as it was before the run
NotPublished == an_out.results \in {NoFile, PriorSnapshot}

\* the steps a run can return the error of
ErrorSteps == {"new_storage", "load_config", "fetch_exchange_info", "klines",
               "analysis"}

C14_SaveOnce ==
    pp_pc = "done" /\ pp_result = "ok" => SaveCalls = 1 /\ Published

\* C14 (amended): save is called at most once for each record, in the order
\* metadata capture, raw candle capture, movement snapshot; a run that
\* returned success has saved the first two once each and has called save for
\* the movement snapshot once, as its last save, exactly when a movement
\* result was collected, and that call published the snapshot.
C14_SaveOncePerRecord ==
    /\ pp_info_saves <= 1
    /\ an_saves <= 1
    /\ KlinesSaveCalls = 1 => pp_info_saves = 1
    /\ an_saves = 1 => KlinesSaveCalls = 1 /\ pc = "done" /\ an_collected # <<>>
    /\ pp_pc = "done" /\ pp_result = "ok" =>
          /\ pp_info_saves = 1
          /\ KlinesSaveCalls = 1
          /\ an_saves = 1 <=> LoopDone /\ an_collected # <<>>
          /\ an_saves = 1 <=> Published

\* C14 witness: a run returned success after three calls of save, the last
\* of which published a snapshot of two instruments
C14_Witness ==
    /\ pp_pc = "done"
    /\ pp_result = "ok"
    /\ SaveCalls = 3
    /\ Published
    /\ Len(an_out.results.results) = 2

\* the configuration or the exchange metadata record cannot be loaded
SetupFailed ==
    \/ files.config.kind # "json"
    \/ pp_err_at = "fetch_exchange_info"
    \/ /\ pp_pc \notin {"new_storage", "load_config", "fetch_info"}
       /\ files.exchange_info.kind # "json"

\* C15: when the configuration or the exchange metadata record is missing or
\* unparseable, no fetch is dispatched, neither the raw candle capture nor
\* the snapshot is saved, and the run, once ended, has returned an error.
C15_SetupFailureFatal ==
    SetupFailed =>
        /\ dispatch_log = <<>>
        /\ \A k \in DOMAIN tasks : tasks[k].pc = "idle"
        /\ pc \in {"not_started", "new_storage", "load_config",
                   "load_exchange_info", "failed"}
        /\ KlinesSaveCalls = 0
        /\ files.klines = NoFile /\ files.klines_tmp = NoFile
        /\ an_saves = 0
        /\ an_pc = "not_started"
        /\ an_out \in PriorOut
        /\ pp_pc = "done" => pp_result = "err"

\* C15 witness: the metadata saved could not be parsed, and the run returned
\* the error of klines::run without a fetch
C15_Witness ==
    /\ files.config.kind = "json"
    /\ files.exchange_info = Garbage
    /\ err_at = "load_exchange_info"
    /\ pp_pc = "done"
    /\ pp_result = "err"
    /\ pp_err_at = "klines"
    /\ dispatch_log = <<>>


\* the closeTime of the last valid candle of each instrument of the capture
\* that has a movement result
ResultTimes ==
    { an_data[p].klines[HighestOf(ValidAt(an_data[p].klines))].close_time.v :
        p \in {q \in DOMAIN an_data : an_data[q].symbol \in SymbolsOf(an_collected)} }

\* C21: the as-of timestamp of the snapshot is the largest last-valid close
\* time over the instruments that have a movement result, and over no other
\* instrument of the capture.
C21_AsOfTimestamp ==
    /\ LoopDone /\ an_collected # <<>> =>
          /\ an_max_close_time \in ResultTimes
          /\ \A t \in ResultTimes : t <= an_max_close_time
    /\ an_pc = "done" /\ an_result = "ok" /\ an_saves = 1 =>
          /\ an_out.results.last_updated_timestamp \in ResultTimes
          /\ \A t \in ResultTimes : t <= an_out.results.last_updated_timestamp

\* C21 witness: the snapshot of a capture whose latest close time belongs to
\* an instrument without a movement result, and whose first instrument has a
\* later close time than its last one
C21_Witness ==
    /\ files.klines = [kind |-> "json", data |-> <<2, 7, 1>>]
    /\ an_mal = NoMal
    /\ an_pc = "done"
    /\ an_result = "ok"
    /\ an_saves = 1
    /\ an_out.results.last_updated_timestamp = 1700000180

\* ---------------------------------------------------------------------------
\* filter_utils::matches_filters: the generic symbol filter
\* ---------------------------------------------------------------------------

\* serde_json::Value, each value carrying its compact serialization
ValueString(s) == [t |-> "string", s |-> s, a |-> <<>>]
ValueNumber(text) == [t |-> "number", s |-> text, a |-> <<>>]
ValueBool(text) == [t |-> "bool", s |-> text, a |-> <<>>]
ValueNull == [t |-> "null", s |-> "null", a |-> <<>>]
ValueObject(text) == [t |-> "object", s |-> text, a |-> <<>>]
ValueArray(elems) == [t |-> "array", s |-> "", a |-> elems]

\* Value::as_str: the text of a string value, nothing for any other value
as_str(v) == IF v.t = "string" THEN [some |-> TRUE, v |-> v.s]
                               ELSE [some |-> FALSE, v |-> ""]

\* Value::to_string: the compact JSON text of a value that is not a string
to_string(v) == v.s

\* the arm of the match for one predicate, absent attribute treated as a pass
filter_ok_absent_passes(symbol, key, required_value) ==
    IF key \notin DOMAIN symbol THEN TRUE
    ELSE LET val == symbol[key] IN
         CASE val.t = "string" -> val.s = required_value
           [] val.t = "array" ->
                \E i \in DOMAIN val.a :
                    as_str(val.a[i]) = [some |-> TRUE, v |-> required_value]
           [] OTHER -> to_string(val) = required_value

\* the arm of the match for one predicate: FALSE is the early `return false`
filter_ok(symbol, key, required_value) ==
    IF key \notin DOMAIN symbol THEN FALSE
    ELSE LET val == symbol[key] IN
         CASE val.t = "string" -> val.s = required_value
           [] val.t = "array" ->
                \E i \in DOMAIN val.a :
                    as_str(val.a[i]) = [some |-> TRUE, v |-> required_value]
           [] OTHER -> to_string(val) = required_value

\* the loop over the predicates: true unless one arm returned false
matches_filters(symbol, filters) ==
    \A key \in DOMAIN filters : filter_ok(symbol, key, filters[key])

\* attribute names of the exchange's symbol documents
FilterKeys == {"status", "underlyingSubType"}

\* attribute values of every JSON type
FilterValues ==
    { ValueString("TRADING"), ValueString("1.5"),
      ValueArray(<<>>), ValueArray(<<ValueString("PoW")>>),
      ValueArray(<<ValueString("DeFi"), ValueString("PoW")>>),
      ValueArray(<<ValueNumber("1.5")>>),
      ValueNumber("1.5"), ValueNumber("2"), ValueBool("true"), ValueNull,
      ValueObject("{\"a\":1}") }

\* literals of the configuration's filter map, canonical and not
FilterLiterals ==
    { "TRADING", "PoW", "1.5", "1.50", "2", "true", "null",
      "{\"a\":1}", "{ \"a\": 1 }" }

\* every map from some of the keys to the members of a set
PartialMaps(S) == UNION { [D -> S] : D \in SUBSET FilterKeys }

InitFilter ==
    /\ FilterRestIdle
    /\ fl_symbol \in PartialMaps(FilterValues)
    /\ fl_filters \in PartialMaps(FilterLiterals)
    /\ fl_out = "pending"

\* one call of matches_filters
MatchCall ==
    /\ fl_out = "pending"
    /\ fl_out' = IF matches_filters(fl_symbol, fl_filters) THEN "true" ELSE "false"
    /\ UNCHANGED <<fl_symbol, fl_filters, filter_rest>>

NextFilter == MatchCall

SpecFilter == InitFilter /\ [][NextFilter]_vars

\* --- C22 -------------------------------------------------------------------

\* a literal read as a generic JSON value; text that is no JSON is a string
ParseLiteral(text) ==
    CASE text \in {"1.5", "1.50"} -> ValueNumber("1.5")
      [] text = "2" -> ValueNumber("2")
      [] text = "true" -> ValueBool("true")
      [] text = "null" -> ValueNull
      [] text \in {"{\"a\":1}", "{ \"a\": 1 }"} -> ValueObject("{\"a\":1}")
      [] OTHER -> ValueString(text)

\* the rule with parsed literals: a string equals the literal, an array holds
\* it as an element, any other value equals the literal parsed
TypeAwareRule(val, lit) ==
    CASE val.t = "string" -> val.s = lit
      [] val.t = "array" -> \E i \in DOMAIN val.a : val.a[i] = ValueString(lit)
      [] OTHER -> val = ParseLiteral(lit)

\* the rule on texts: a string equals the literal, an array holds it as a
\* string element, any other value's compact JSON text is the literal
TextRule(val, lit) ==
    CASE val.t = "string" -> val.s = lit
      [] val.t = "array" -> ValueString(lit) \in {val.a[i] : i \in DOMAIN val.a}
      [] OTHER -> val.s = lit

\* the instrument without one attribute
WithoutKey(symbol, key) == [k \in DOMAIN symbol \ {key} |-> symbol[k]]

\* C22 (as stated): an instrument matches iff every key of the predicate set
\* is present on it and its value satisfies the rule of its type, where a
\* number, boolean, null or nested value is compared with the literal parsed.
C22_TypeAwareMatch ==
    fl_out # "pending" =>
        (fl_out = "true" <=>
            \A k \in DOMAIN fl_filters :
                /\ k \in DOMAIN fl_symbol
                /\ TypeAwareRule(fl_symbol[k], fl_filters[k]))

\* C22 (amended): an instrument matches iff every key of the predicate set is
\* present on it and its value satisfies the rule of its type, where a number,
\* boolean, null or nested value is compared by its compact JSON text with the
\* literal, character for character; an empty predicate set matches every
\* instrument, and a matching instrument without one of the referenced keys
\* does not match.
C22_TextMatch ==
    fl_out # "pending" =>
        /\ fl_out = "true" <=>
              \A k \in DOMAIN fl_filters :
                  /\ k \in DOMAIN fl_symbol
                  /\ TextRule(fl_symbol[k], fl_filters[k])
        /\ fl_filters = <<>> => fl_out = "true"
        /\ fl_out = "true" =>
              \A k \in DOMAIN fl_filters :
                  ~matches_filters(WithoutKey(fl_symbol, k), fl_filters)

C22_Witness ==
    /\ fl_out = "true"
    /\ DOMAIN fl_filters = FilterKeys
    /\ fl_symbol["status"] = ValueNumber("1.5")
    /\ fl_filters["status"] = "1.5"
    /\ fl_symbol["underlyingSubType"].t = "array"

\* ---------------------------------------------------------------------------
\* The snapshot saved by cumulative_price_change::run, read back by
\* tui::load_data
\* ---------------------------------------------------------------------------

\* tui::AssetResult read from one element of "results"
AssetResult(item) ==
    [symbol |-> item.symbol, movement_pct |-> item.movement_pct,
     rsi |-> NoneF64]

\* movement_pct: f64 is read from a JSON number only
AssetResultOk(item) == item.movement_pct.k = "num"

\* serde_json::from_slice::<tui::OutputData> succeeds
from_slice_ok(file) ==
    /\ file.kind = "json"
    /\ \A i \in DOMAIN file.results : AssetResultOk(file.results[i])

\* the tui::OutputData it returns
from_slice(file) ==
    [last_updated_timestamp |-> file.last_updated_timestamp,
     results |-> [i \in DOMAIN file.results |-> AssetResult(file.results[i])]]

\* the spawned refresh task after the pipeline returned Ok: load_data().await
TuiLoadData ==
    /\ an_pc = "done"
    /\ an_result = "ok"
    /\ tl_result = "pending"
    /\ IF from_slice_ok(an_out.results)
       THEN /\ tl_result' = "ok"
            /\ tl_data' = from_slice(an_out.results)
       ELSE /\ tl_result' = "err"
            /\ UNCHANGED tl_data
    /\ UNCHANGED load_rest

NextSnapshot ==
    \/ NextAnalyze
    \/ TuiLoadData

SpecSnapshot == InitAnalyze /\ [][NextSnapshot]_vars

\* --- C23 -------------------------------------------------------------------

\* C23: a snapshot saved under "results" and then loaded comes back with the
\* as-of timestamp and the ranked list, in order, that were saved.
C23_RoundTrip ==
    an_saves = 1 /\ tl_result # "pending" =>
        /\ tl_result = "ok"
        /\ tl_data.last_updated_timestamp = an_max_close_time
        /\ Len(tl_data.results) = Len(an_results)
        /\ \A i \in DOMAIN an_results :
              /\ tl_data.results[i].symbol = an_results[i].symbol
              /\ tl_data.results[i].movement_pct = an_results[i].movement_pct

\* ---------------------------------------------------------------------------
\* klines::run: the spacing of the batches
\* ---------------------------------------------------------------------------

\* --- C24 -------------------------------------------------------------------

\* C24: the dispatch instants of two consecutive batches are at least 60 s
\* apart: after a batch joined in under 60 s the gap covers its elapsed time
\* and the sleep of 62 s minus elapsed, after a batch of 60 s or more (a ban
\* backoff included) it covers its elapsed time.
C24_DispatchGap ==
    \A b \in 1..(Len(dispatch_log) - 1) :
        LET gap == dispatch_log[b + 1].at - dispatch_log[b].at
            e == pace_log[b].elapsed
        IN /\ gap >= 60000
           /\ e < 60000 => gap >= e + (62000 - e)
           /\ e >= 60000 => gap >= e

\* C24 witness: three batches dispatched; the first joined after 59.999 s and
\* the second started 62 s after it, the second was held by a ban backoff for
\* more than 100 s and the third started when it had joined
C24_Witness ==
    /\ Len(dispatch_log) = 3
    /\ pace_log[1].elapsed = 59999
    /\ dispatch_log[2].at - dispatch_log[1].at = 62000
    /\ pace_log[2].elapsed >= 100000
    /\ dispatch_log[3].at - dispatch_log[2].at = pace_log[2].elapsed

\* --- C25 -------------------------------------------------------------------

\* the fetch observed a ban and was suspended
Banned(k) == tasks[k].wait_ms >= 0

\* the resumption time of the ban it observed plus 5 s, on the run's clock
ResumeAt(k) == (tasks[k].body.until_val - EpochMs) + 5000

\* every batch joined so far joined no later than now
JoinsPassed == \A b \in 1..Len(pace_log) : pace_log[b].at <= clock

\* C25: a batch joins only when the resumption time plus 5 s of every ban
\* observed by one of its fetches has passed, and its elapsed time covers the
\* whole suspension; a batch is dispatched, and the capture is saved, only
\* after every earlier batch has joined, with no fetch still suspended.
C25_BanHoldsBarrier ==
    /\ [][Len(pace_log') > Len(pace_log) =>
            \A k \in ChunkOf(chunk_i) :
                Banned(k) =>
                    /\ clock >= ResumeAt(k)
                    /\ pace_log'[Len(pace_log')].at >= ResumeAt(k)
                    /\ pace_log'[Len(pace_log')].elapsed >= tasks[k].wait_ms
         ]_vars
    /\ [][Len(dispatch_log') > Len(dispatch_log) =>
            /\ Len(pace_log) = Len(dispatch_log)
            /\ JoinsPassed
            /\ \A k \in DOMAIN tasks : tasks[k].pc # "sleeping"
         ]_vars
    /\ [](pc \in {"save_write", "save_rename", "done"} =>
            /\ Len(pace_log) = Len(dispatch_log)
            /\ JoinsPassed
            /\ \A k \in DOMAIN tasks : tasks[k].pc # "sleeping")

\* C25 witness: the first of two batches was held by a ban for 105 s, the
\* second was dispatched when it had joined, and the capture was saved
C25_Witness ==
    /\ pc = "done"
    /\ run_result = "ok"
    /\ Len(dispatch_log) = 2
    /\ pace_log[1].elapsed >= 105000
    /\ dispatch_log[2].at >= dispatch_log[1].at + 105000

\* --- C26 -------------------------------------------------------------------

\* the place of an instrument in the filtered list
PlaceInFiltered(sym) ==
    CHOOSE k \in DOMAIN symbols_to_fetch : symbols_to_fetch[k].symbol = sym

\* the instruments whose fetch returned a record
Fetched ==
    {symbols_to_fetch[k].symbol :
        k \in {j \in DOMAIN tasks : tasks[j].result = "some"}}

\* C26: the capture saved at the end of a run holds exactly the instruments
\* whose fetch succeeded, each once, in the order of the filtered list,
\* whatever the order in which the fetches resolved.
C26_CaptureSubsequence ==
    pc = "done" /\ run_result = "ok" =>
        LET saved == files.klines.data IN
        /\ files.klines.kind = "json"
        /\ {saved[i] : i \in DOMAIN saved} = Fetched
        /\ \A i, j \in DOMAIN saved :
              i < j => PlaceInFiltered(saved[i]) < PlaceInFiltered(saved[j])

\* C26 witness: a capture of two instruments saved, the fetch of an instrument
\* between them in the filtered list having failed
C26_Witness ==
    /\ pc = "done"
    /\ run_result = "ok"
    /\ \E k \in DOMAIN tasks :
          /\ k > 1
          /\ k < NumSymbols
          /\ tasks[k].result = "none"
          /\ files.klines.data =
                <<symbols_to_fetch[k - 1].symbol, symbols_to_fetch[k + 1].symbol>>

\* ---------------------------------------------------------------------------
\* klines::run under fair scheduling: every step that stays possible is
\* eventually taken (the runtime polls the run and every fetch of the batch,
\* and time passes)
\* ---------------------------------------------------------------------------

Fairness ==
    /\ WF_vars(NewStorage)
    /\ WF_vars(LoadConfig)
    /\ WF_vars(LoadExchangeInfo)
    /\ WF_vars(BuildClient)
    /\ WF_vars(Dispatch)
    /\ WF_vars(LoopExit)
    /\ \A k \in 1..MaxSymbols :
          /\ WF_vars(k \in DOMAIN tasks /\ SendDone(k))
          /\ WF_vars(k \in DOMAIN tasks /\ TextDone(k))
          /\ WF_vars(k \in DOMAIN tasks /\ JsonDone(k))
          /\ WF_vars(k \in DOMAIN tasks /\ BanWake(k))
    /\ WF_vars(Join)
    /\ WF_vars(PacingWake)
    /\ WF_vars(SaveWrite)
    /\ WF_vars(SaveRename)
    /\ WF_vars(Tick)

\* the runs with a configuration of limit 99 (weight 1) and exchange metadata
\* whose ceiling gives batches of one or of two instruments, over an empty
\* list and over the longest one
FairInit ==
    /\ Init
    /\ files.config = [kind |-> "json", limit |-> 99]
    /\ files.exchange_info \in
          {[kind |-> "json", rate_limits |-> r, symbols |-> SymbolList(n)] :
              r \in {<< RL("REQUEST_WEIGHT", "MINUTE", 1) >>,
                     << RL("ORDERS", "MINUTE", 1200),
                        RL("REQUEST_WEIGHT", "MINUTE", 3),
                        RL("REQUEST_WEIGHT", "MINUTE", 2400) >>},
              n \in {0, MaxSymbols}}

FairSpec == FairInit /\ [][Next]_vars /\ Fairness

\* an armed timer whose deadline lies beyond the horizon of the clock
PastHorizon ==
    \/ \E k \in DOMAIN tasks :
          tasks[k].pc = "sleeping" /\ tasks[k].wake_at > MaxClock
    \/ pc = "pacing" /\ sleep_until > MaxClock

\* --- C27 -------------------------------------------------------------------

\* C27: once the loop is entered the run eventually returns (Ok, or the error
\* of the save) unless a timer is armed beyond the horizon; a batch is
\* dispatched from the loop only, in list order, and is then waited for; the
\* save is entered once, from the loop, when every chunk has been dispatched
\* and joined (none with an empty filtered list), and the loop is not
\* re-entered after it.
C27_Terminates ==
    /\ (pc = "loop") ~> (pc \in {"done", "failed"} \/ PastHorizon)
    /\ [][Len(dispatch_log') > Len(dispatch_log) =>
            /\ pc = "loop"
            /\ pc' = "join"
            /\ dispatch_log'[Len(dispatch_log')].batch = Len(dispatch_log)
            /\ Len(pace_log) = Len(dispatch_log)
         ]_vars
    /\ [][pc' = "save_write" /\ pc # "save_write" =>
            /\ pc = "loop"
            /\ Len(dispatch_log) = NumChunks
            /\ Len(pace_log) = NumChunks
            /\ NumSymbols = 0 => dispatch_log = <<>>
         ]_vars
    /\ [][(pc \in {"save_write", "save_rename", "done", "failed"}) =>
            /\ pc' \in {"save_write", "save_rename", "done", "failed"}
            /\ pc # "save_write" => pc' # "save_write"
            /\ dispatch_log' = dispatch_log
         ]_vars

\* C27 witness: a run of three batches that returned Ok
C27_Witness ==
    /\ pc = "done"
    /\ run_result = "ok"
    /\ Len(dispatch_log) = 3
    /\ Len(pace_log) = 3
    /\ files.klines.kind = "json"

\* --- C28 -------------------------------------------------------------------

\* C28: 62 s minus elapsed is computed only for an elapsed time below 60 s,
\* so it never underflows, and every pacing sleep lasts more than 2 s and at
\* most 62 s.
C28_PacingDelayRange ==
    /\ \A b \in 1..Len(pace_log) :
          pace_log[b].wait # -1 =>
              /\ pace_log[b].elapsed >= 0
              /\ pace_log[b].elapsed < 60000
              /\ pace_log[b].wait > 2000
              /\ pace_log[b].wait <= 62000
    /\ pc = "pacing" =>
          /\ sleep_until - pace_log[Len(pace_log)].at > 2000
          /\ sleep_until - pace_log[Len(pace_log)].at <= 62000

\* C28 witness: a sleep of the full 62 s after a batch that took no time and
\* a sleep of 2.001 s after a batch of 59.999 s
C28_Witness ==
    /\ Len(pace_log) >= 2
    /\ pace_log[1].elapsed = 0
    /\ pace_log[1].wait = 62000
    /\ pace_log[2].elapsed = 59999
    /\ pace_log[2].wait = 2001
    /\ pc = "pacing"

\* --- C29 -------------------------------------------------------------------

\* C29: for a series with exactly one valid candle whose close is not zero
\* the reducer returns the movement 0 and that candle's closeTime.
C29_SingleValidCandle ==
    rd_out # NotReturned =>
        \A i \in DOMAIN rd_klines :
            ( /\ ValidAt(rd_klines) = {i}
              /\ ~is_zero(rd_klines[i].close.v) )
            => rd_out = SomeMovement(F64(0), rd_klines[i].close_time.v)

\* ---------------------------------------------------------------------------
\* tui::run_app: the display loop, the F5 handler and the refresh tasks
\* ---------------------------------------------------------------------------

\* the records run_analysis_pipeline saves, in the order of its steps
SavedKeys == <<"exchange_info", "klines", "results">>

\* a refresh task at its spawn: the first step of the pipeline is at work
SpawnedTask ==
    [pc |-> "work", key |-> 1, pipeline |-> "running", result |-> "none",
     data |-> 0]

\* the pipeline returned Err(e): the task goes on to send it
PipelineErr(t) ==
    [t EXCEPT !.pc = "sending", !.pipeline = "err", !.result = "err"]

\* the pipeline returned Ok(()): the task goes on to load_data
PipelineOk(t) == [t EXCEPT !.pc = "loading", !.pipeline = "ok"]

InitTui ==
    /\ TuiRestIdle
    /\ ui_pc = "recv"
    /\ is_refreshing = FALSE
    /\ data_rx = <<>>
    /\ refresh_tasks = <<>>
    /\ app_data = 0

\* if let Ok(result) = data_rx.try_recv(): set_data or the Err arm, both of
\* which clear is_refreshing
TryRecv ==
    /\ ui_pc = "recv"
    /\ IF data_rx # <<>>
       THEN /\ data_rx' = Tail(data_rx)
            /\ is_refreshing' = FALSE
            /\ app_data' = IF Head(data_rx).result = "ok"
                            THEN Head(data_rx).data
                            ELSE app_data
       ELSE UNCHANGED <<data_rx, is_refreshing, app_data>>
    /\ ui_pc' = "poll"
    /\ UNCHANGED <<refresh_tasks, tui_rest>>

\* event::poll timed out, or the event was a resize or a key other than q and F5
PollOther ==
    /\ ui_pc = "poll"
    /\ ui_pc' = "recv"
    /\ UNCHANGED <<is_refreshing, data_rx, refresh_tasks, app_data, tui_rest>>

\* KeyCode::Char('q') => return false; run_app returns Err("Quit")
KeyQuit ==
    /\ ui_pc = "poll"
    /\ ui_pc' = "quit"
    /\ UNCHANGED <<is_refreshing, data_rx, refresh_tasks, app_data, tui_rest>>

\* variant: F5 spawns a refresh task whether or not one is in progress
KeyF5Unguarded ==
    /\ ui_pc = "poll"
    /\ Len(refresh_tasks) < MaxRefreshes
    /\ is_refreshing' = TRUE
    /\ refresh_tasks' = Append(refresh_tasks, SpawnedTask)
    /\ ui_pc' = "recv"
    /\ UNCHANGED <<data_rx, app_data, tui_rest>>

\* KeyCode::F(5) if !app.is_refreshing => spawn; any other F5 falls to `_ => {}`
KeyF5 ==
    /\ ui_pc = "poll"
    /\ is_refreshing \/ Len(refresh_tasks) < MaxRefreshes
    /\ IF ~is_refreshing
       THEN /\ is_refreshing' = TRUE
            /\ refresh_tasks' = Append(refresh_tasks, SpawnedTask)
       ELSE UNCHANGED <<is_refreshing, refresh_tasks>>
    /\ ui_pc' = "recv"
    /\ UNCHANGED <<data_rx, app_data, tui_rest>>

\* a step of the pipeline up to its save: it fails, it writes the temporary
\* file of its record, or (the analysis) it returns Ok without saving
TaskWork(i) ==
    /\ ui_pc # "quit"
    /\ refresh_tasks[i].pc = "work"
    /\ \/ refresh_tasks' = [refresh_tasks EXCEPT ![i] = PipelineErr(@)]
       \/ refresh_tasks' = [refresh_tasks EXCEPT ![i].pc = "tmp_written"]
       \/ /\ refresh_tasks[i].key = Len(SavedKeys)
          /\ refresh_tasks' = [refresh_tasks EXCEPT ![i] = PipelineOk(@)]
    /\ UNCHANGED <<ui_pc, is_refreshing, data_rx, app_data, tui_rest>>

\* the rename of the save: on success the next step of the pipeline starts,
\* after the last one the pipeline has returned Ok
TaskRename(i) ==
    /\ ui_pc # "quit"
    /\ refresh_tasks[i].pc = "tmp_written"
    /\ \/ refresh_tasks' = [refresh_tasks EXCEPT ![i] = PipelineErr(@)]
       \/ /\ refresh_tasks[i].key < Len(SavedKeys)
          /\ refresh_tasks' = [refresh_tasks EXCEPT ![i].pc = "work",
                                                    ![i].key = @ + 1]
       \/ /\ refresh_tasks[i].key = Len(SavedKeys)
          /\ refresh_tasks' = [refresh_tasks EXCEPT ![i] = PipelineOk(@)]
    /\ UNCHANGED <<ui_pc, is_refreshing, data_rx, app_data, tui_rest>>

\* Ok(_) => load_data().await
TaskLoad(i) ==
    /\ ui_pc # "quit"
    /\ refresh_tasks[i].pc = "loading"
    /\ \/ refresh_tasks' = [refresh_tasks EXCEPT ![i].pc = "sending",
                                                    ![i].result = "ok",
                                                    ![i].data = i]
       \/ refresh_tasks' = [refresh_tasks EXCEPT ![i].pc = "sending",
                                                    ![i].result = "err"]
    /\ UNCHANGED <<ui_pc, is_refreshing, data_rx, app_data, tui_rest>>

\* tx_clone.send(result).await on the channel of capacity 1
TaskSend(i) ==
    /\ ui_pc # "quit"
    /\ refresh_tasks[i].pc = "sending"
    /\ Len(data_rx) < ChannelCapacity
    /\ data_rx' = Append(data_rx, [result |-> refresh_tasks[i].result,
                                    data |-> refresh_tasks[i].data])
    /\ refresh_tasks' = [refresh_tasks EXCEPT ![i].pc = "finished"]
    /\ UNCHANGED <<ui_pc, is_refreshing, app_data, tui_rest>>

\* the analysis panics in results.sort_unstable_by, whose closure is no total
\* order when a movement is NaN: the task ends without sending
TaskPanic(i) ==
    /\ ui_pc # "quit"
    /\ refresh_tasks[i].pc = "work"
    /\ refresh_tasks[i].key = Len(SavedKeys)
    /\ refresh_tasks' = [refresh_tasks EXCEPT ![i].pc = "panicked",
                                              ![i].pipeline = "panicked"]
    /\ UNCHANGED <<ui_pc, is_refreshing, data_rx, app_data, tui_rest>>

NextTui ==
    \/ TryRecv
    \/ PollOther
    \/ KeyQuit
    \/ KeyF5
    \/ \E i \in DOMAIN refresh_tasks : TaskWork(i)
    \/ \E i \in DOMAIN refresh_tasks : TaskRename(i)
    \/ \E i \in DOMAIN refresh_tasks : TaskLoad(i)
    \/ \E i \in DOMAIN refresh_tasks : TaskSend(i)
    \/ \E i \in DOMAIN refresh_tasks : TaskPanic(i)

SpecTui == InitTui /\ [][NextTui]_vars

\* --- C30 -------------------------------------------------------------------

\* the refresh tasks whose pipeline run has not returned
RunsInFlight ==
    {i \in DOMAIN refresh_tasks : refresh_tasks[i].pc \in {"work", "tmp_written"}}

\* the refresh tasks between the write of a record's temporary file and its
\* rename
Saving(key) ==
    {i \in DOMAIN refresh_tasks :
        refresh_tasks[i].pc = "tmp_written" /\ refresh_tasks[i].key = key}

\* C30: at most one pipeline run is in flight, and only while is_refreshing
\* is set; an F5 pressed while a refresh is in progress spawns nothing; no
\* two runs are within the save of the same record at the same time.
C30_SingleRefresh ==
    /\ [](Cardinality(RunsInFlight) <= 1)
    /\ [](RunsInFlight # {} => is_refreshing)
    /\ [](\A key \in DOMAIN SavedKeys : Cardinality(Saving(key)) <= 1)
    /\ [][is_refreshing => Len(refresh_tasks') = Len(refresh_tasks)]_vars

\* C30 witness: F5 is pressed while the second refresh, spawned after the
\* first one was received, is saving the snapshot
C30_Witness ==
    /\ ui_pc = "poll"
    /\ is_refreshing
    /\ Len(refresh_tasks) = 2
    /\ refresh_tasks[1].pc = "finished"
    /\ refresh_tasks[2].pc = "tmp_written"
    /\ refresh_tasks[2].key = 3

\* ---------------------------------------------------------------------------
\* tui::run_app under fair scheduling: the loop keeps turning (try_recv, then
\* a poll of at most 50 ms) and the runtime keeps polling the refresh tasks
\* ---------------------------------------------------------------------------

FairnessTui ==
    /\ WF_vars(TryRecv)
    /\ WF_vars(PollOther)
    /\ \A i \in 1..MaxRefreshes :
          /\ WF_vars(i \in DOMAIN refresh_tasks /\ TaskWork(i))
          /\ WF_vars(i \in DOMAIN refresh_tasks /\ TaskRename(i))
          /\ WF_vars(i \in DOMAIN refresh_tasks /\ TaskLoad(i))
          /\ WF_vars(i \in DOMAIN refresh_tasks /\ TaskSend(i))

FairSpecTui == InitTui /\ [][NextTui]_vars /\ FairnessTui

\* --- C31 -------------------------------------------------------------------

\* a refresh task that has not ended, or a result not yet taken from the
\* channel
AckPending ==
    \/ data_rx # <<>>
    \/ \E i \in DOMAIN refresh_tasks :
          refresh_tasks[i].pc \in {"work", "tmp_written", "loading", "sending"}

\* C31: while the loop runs, a set refreshing flag is eventually cleared, and
\* it is never left set with every refresh task ended and nothing to receive;
\* the displayed snapshot changes only by receiving the result of a refresh
\* whose pipeline and load both succeeded, and a received failure leaves it
\* as it was.
C31_RefreshAcknowledged ==
    /\ [](is_refreshing /\ ui_pc # "quit" => AckPending)
    /\ is_refreshing ~> (~is_refreshing \/ ui_pc = "quit")
    /\ [][app_data' # app_data =>
            /\ data_rx # <<>>
            /\ Head(data_rx).result = "ok"
            /\ app_data' = Head(data_rx).data
            /\ \E i \in DOMAIN refresh_tasks :
                  /\ refresh_tasks[i].pipeline = "ok"
                  /\ refresh_tasks[i].result = "ok"
                  /\ refresh_tasks[i].data = app_data'
         ]_vars
    /\ [][(data_rx # <<>> /\ data_rx' = <<>> /\ Head(data_rx).result = "err") =>
            app_data' = app_data /\ ~is_refreshing'
         ]_vars

====
